---- MODULE Spec2Model ----
(***************************************************************************)
(* Query-resolution pipeline of the search-engine chat bot                 *)
(* (src/core/pipeline.py, src/utils/helpers.py).                           *)
(*                                                                         *)
(* A Python str is modelled as a sequence of characters, one TLA+ string   *)
(* per character.  A character outside ASCII is written by its code point  *)
(* ("U+C624"), so that len(), slicing, strip(), upper()/lower() and the    *)
(* substring tests of the code are computed character by character.        *)
(***************************************************************************)
EXTENDS Integers, Sequences, FiniteSets, TLC

-----------------------------------------------------------------------------
(* Python str primitives                                                   *)

Min(a, b) == IF a <= b THEN a ELSE b
Max(a, b) == IF a >= b THEN a ELSE b

\* str.isspace() for the characters that occur in the model
IsSpace(c) == c \in {" ", "\n", "\t", "\r"}

UpperLetters ==
    <<"A","B","C","D","E","F","G","H","I","J","K","L","M",
      "N","O","P","Q","R","S","T","U","V","W","X","Y","Z">>
LowerLetters ==
    <<"a","b","c","d","e","f","g","h","i","j","k","l","m",
      "n","o","p","q","r","s","t","u","v","w","x","y","z">>

IsUpperLetter(c) == \E i \in 1..26 : UpperLetters[i] = c
IsLowerLetter(c) == \E i \in 1..26 : LowerLetters[i] = c
\* the character class [a-zA-Z]
IsAsciiLetter(c) == IsUpperLetter(c) \/ IsLowerLetter(c)

ToUpper(c) ==
    IF IsLowerLetter(c)
    THEN UpperLetters[CHOOSE i \in 1..26 : LowerLetters[i] = c]
    ELSE c
ToLower(c) ==
    IF IsUpperLetter(c)
    THEN LowerLetters[CHOOSE i \in 1..26 : UpperLetters[i] = c]
    ELSE c

\* s.upper(), s.lower()
Upper(s) == [i \in 1..Len(s) |-> ToUpper(s[i])]
Lower(s) == [i \in 1..Len(s) |-> ToLower(s[i])]

\* s.strip()
Strip(s) ==
    LET keep == {i \in 1..Len(s) : ~IsSpace(s[i])}
    IN  IF keep = {} THEN <<>>
        ELSE SubSeq(s, CHOOSE i \in keep : \A j \in keep : i <= j,
                       CHOOSE i \in keep : \A j \in keep : i >= j)

\* s[:n]
Take(s, n) == SubSeq(s, 1, Min(n, Len(s)))

\* s[n:]  (n counts from 0 as in Python)
Drop(s, n) == SubSeq(s, n + 1, Len(s))

\* s.startswith(p)
StartsWith(s, p) == Len(p) <= Len(s) /\ SubSeq(s, 1, Len(p)) = p

\* s[i..] starts with p (i counts from 1)
MatchAt(s, i, p) ==
    i >= 1 /\ i + Len(p) - 1 <= Len(s) /\ SubSeq(s, i, i + Len(p) - 1) = p

\* sub in s
Contains(s, sub) == \E i \in 1..(Len(s) - Len(sub) + 1) : MatchAt(s, i, sub)

\* any(m in s for m in markers)
ContainsAny(s, markers) == \E m \in markers : Contains(s, m)

\* sep.join(parts)
RECURSIVE Join(_, _)
Join(parts, sep) ==
    IF parts = <<>> THEN <<>>
    ELSE IF Len(parts) = 1 THEN parts[1]
    ELSE parts[1] \o sep \o Join(Tail(parts), sep)

\* the non-empty elements, repeated ones included
KeepRepeated(xs) == SelectSeq(xs, LAMBDA x : x # <<>>)

\* list(dict.fromkeys(x for x in xs if x)): first occurrences, in order
RECURSIVE DedupKeepOrder(_)
DedupKeepOrder(xs) ==
    IF xs = <<>> THEN <<>>
    ELSE LET init == DedupKeepOrder(SubSeq(xs, 1, Len(xs) - 1))
             last == xs[Len(xs)]
         IN  IF last = <<>> \/ (\E i \in 1..Len(init) : init[i] = last)
             THEN init
             ELSE Append(init, last)

\* re.sub(r"[^a-zA-Z]+", "", s)
RECURSIVE RemoveNonLetters(_)
RemoveNonLetters(s) ==
    IF s = <<>> THEN <<>>
    ELSE IF IsAsciiLetter(Head(s)) THEN <<Head(s)>> \o RemoveNonLetters(Tail(s))
    ELSE RemoveNonLetters(Tail(s))

-----------------------------------------------------------------------------
(* String literals of the source                                           *)

\* 챗봇 초기화 오류 발생.
INIT_ERROR ==
    <<"U+CC57","U+BD07"," ","U+CD08","U+AE30","U+D654"," ","U+C624",
      "U+B958"," ","U+BC1C","U+C0DD",".">>

\* SEARCH
SEARCH ==
    <<"S","E","A","R","C","H">>

\* NO_SEARCH
NO_SEARCH ==
    <<"N","O","_","S","E","A","R","C","H">>

\* 답변 생성 불가
NO_ANSWER_DEFAULT ==
    <<"U+B2F5","U+BCC0"," ","U+C0DD","U+C131"," ","U+BD88","U+AC00">>

\* 간단 답변 생성 에러
NO_SEARCH_ERROR ==
    <<"U+AC04","U+B2E8"," ","U+B2F5","U+BCC0"," ","U+C0DD","U+C131"," ",
      "U+C5D0","U+B7EC">>

\* 답변 오류
FALLBACK_DEFAULT ==
    <<"U+B2F5","U+BCC0"," ","U+C624","U+B958">>

\* 답변 생성 중 오류 발생.
FALLBACK_ERROR ==
    <<"U+B2F5","U+BCC0"," ","U+C0DD","U+C131"," ","U+C911"," ","U+C624",
      "U+B958"," ","U+BC1C","U+C0DD",".">>

\* CES
CES_DEFAULT ==
    <<"C","E","S">>

\* serpapi
ENGINE_SERPAPI ==
    <<"s","e","r","p","a","p","i">>

\* naver
ENGINE_NAVER ==
    <<"n","a","v","e","r">>

\* ces
ENGINE_CES ==
    <<"c","e","s">>

\* serpapi_search
TOOL_SERPAPI ==
    <<"s","e","r","p","a","p","i","_","s","e","a","r","c","h">>

\* naver_search
TOOL_NAVER ==
    <<"n","a","v","e","r","_","s","e","a","r","c","h">>

\* ces_search
TOOL_CES ==
    <<"c","e","s","_","s","e","a","r","c","h">>

\* Agent 실행 중 에러 발생: 
AGENT_ERROR_PREFIX ==
    <<"A","g","e","n","t"," ","U+C2E4","U+D589"," ","U+C911"," ","U+C5D0",
      "U+B7EC"," ","U+BC1C","U+C0DD",":"," ">>

\* (Agent 최종 답변 없음)
NO_FINAL_ANSWER ==
    <<"(","A","g","e","n","t"," ","U+CD5C","U+C885"," ","U+B2F5","U+BCC0",
      " ","U+C5C6","U+C74C",")">>

\* (검색된 본문 없음)
NO_BODY ==
    <<"(","U+AC80","U+C0C9","U+B41C"," ","U+BCF8","U+BB38"," ","U+C5C6",
      "U+C74C",")">>

\* (검색된 본문 내용 없음)
NO_BODY_CONTENT ==
    <<"(","U+AC80","U+C0C9","U+B41C"," ","U+BCF8","U+BB38"," ","U+B0B4",
      "U+C6A9"," ","U+C5C6","U+C74C",")">>

\* (이전 대화 없음)
NO_HISTORY ==
    <<"(","U+C774","U+C804"," ","U+B300","U+D654"," ","U+C5C6","U+C74C",")">>

\* [검색된 본문]\n
EVIDENCE_HEADER ==
    <<"[","U+AC80","U+C0C9","U+B41C"," ","U+BCF8","U+BB38","]","\n">>

\* \n\n[최근 대화 기록]\n
HISTORY_HEADER ==
    <<"\n","\n","[","U+CD5C","U+ADFC"," ","U+B300","U+D654"," ","U+AE30",
      "U+B85D","]","\n">>

\* \n\n출처:\n
SOURCES_HEADER ==
    <<"\n","\n","U+CD9C","U+CC98",":","\n">>

\* 본문:\n
BODY_HEADER ==
    <<"U+BCF8","U+BB38",":","\n">>

\* - 
LINK_BULLET ==
    <<"-"," ">>

\* HumanMessage: 
HUMAN_PREFIX ==
    <<"H","u","m","a","n","M","e","s","s","a","g","e",":"," ">>

\* AIMessage: 
AI_PREFIX ==
    <<"A","I","M","e","s","s","a","g","e",":"," ">>

\* 오류
MARK_ORYU ==
    <<"U+C624","U+B958">>

\* 실패
MARK_SILPAE ==
    <<"U+C2E4","U+D328">>

\* 없음
MARK_EOPSEUM ==
    <<"U+C5C6","U+C74C">>

\* 불가
MARK_BULGA ==
    <<"U+BD88","U+AC00">>

\* 죄송합니다
MARK_SORRY ==
    <<"U+C8C4","U+C1A1","U+D569","U+B2C8","U+B2E4">>

\* 정보 확인 불가
MARK_UNVERIFIABLE ==
    <<"U+C815","U+BCF4"," ","U+D655","U+C778"," ","U+BD88","U+AC00">>

\* 수정 불가
MARK_UNFIXABLE ==
    <<"U+C218","U+C815"," ","U+BD88","U+AC00">>

\* SerpAPI 엔진 초기화 실패
SERP_UNINIT ==
    <<"S","e","r","p","A","P","I"," ","U+C5D4","U+C9C4"," ","U+CD08",
      "U+AE30","U+D654"," ","U+C2E4","U+D328">>

\* Naver 엔진 초기화 실패
NAVER_UNINIT ==
    <<"N","a","v","e","r"," ","U+C5D4","U+C9C4"," ","U+CD08","U+AE30",
      "U+D654"," ","U+C2E4","U+D328">>

\* CES 엔진 초기화 실패
CES_UNINIT ==
    <<"C","E","S"," ","U+C5D4","U+C9C4"," ","U+CD08","U+AE30","U+D654"," ",
      "U+C2E4","U+D328">>

\* 헬퍼 함수 임포트 실패
HELPER_IMPORT_FAILED ==
    <<"U+D5EC","U+D37C"," ","U+D568","U+C218"," ","U+C784","U+D3EC",
      "U+D2B8"," ","U+C2E4","U+D328">>

\* 검색 결과 없음.
SERP_NO_RESULT ==
    <<"U+AC80","U+C0C9"," ","U+ACB0","U+ACFC"," ","U+C5C6","U+C74C",".">>

\* 네이버 검색 결과 없음
NAVER_NO_RESULT ==
    <<"U+B124","U+C774","U+BC84"," ","U+AC80","U+C0C9"," ","U+ACB0",
      "U+ACFC"," ","U+C5C6","U+C74C">>

\* CES 검색 결과 없음
CES_NO_RESULT ==
    <<"C","E","S"," ","U+AC80","U+C0C9"," ","U+ACB0","U+ACFC"," ","U+C5C6",
      "U+C74C">>

\* SerpAPI 검색 처리 중 오류 발생: 
SERP_ERROR_PREFIX ==
    <<"S","e","r","p","A","P","I"," ","U+AC80","U+C0C9"," ","U+CC98",
      "U+B9AC"," ","U+C911"," ","U+C624","U+B958"," ","U+BC1C","U+C0DD",":",
      " ">>

\* 네이버 검색 처리 중 오류 발생: 
NAVER_ERROR_PREFIX ==
    <<"U+B124","U+C774","U+BC84"," ","U+AC80","U+C0C9"," ","U+CC98",
      "U+B9AC"," ","U+C911"," ","U+C624","U+B958"," ","U+BC1C","U+C0DD",":",
      " ">>

\* CES 검색 처리 중 오류 발생: 
CES_ERROR_PREFIX ==
    <<"C","E","S"," ","U+AC80","U+C0C9"," ","U+CC98","U+B9AC"," ","U+C911",
      " ","U+C624","U+B958"," ","U+BC1C","U+C0DD",":"," ">>

\* 웹 검색
WEB_SEARCH_PREFIX ==
    <<"U+C6F9"," ","U+AC80","U+C0C9">>

\* 관련 내용을 찾거나 추출하지 못했습니다.
NOTHING_EXTRACTED ==
    <<"U+AD00","U+B828"," ","U+B0B4","U+C6A9","U+C744"," ","U+CC3E",
      "U+AC70","U+B098"," ","U+CD94","U+CD9C","U+D558","U+C9C0"," ",
      "U+BABB","U+D588","U+C2B5","U+B2C8","U+B2E4",".">>

\* --- 문서 (
DOC_OPEN ==
    <<"-","-","-"," ","U+BB38","U+C11C"," ","(">>

\* ) ---\n
DOC_CLOSE ==
    <<")"," ","-","-","-","\n">>

\* 파싱 불가
PARSE_IMPOSSIBLE ==
    <<"U+D30C","U+C2F1"," ","U+BD88","U+AC00">>

\* 결과에서 유효한 내용을 찾지 못했습니다.
NO_VALID_CONTENT ==
    <<"U+ACB0","U+ACFC","U+C5D0","U+C11C"," ","U+C720","U+D6A8","U+D55C",
      " ","U+B0B4","U+C6A9","U+C744"," ","U+CC3E","U+C9C0"," ","U+BABB",
      "U+D588","U+C2B5","U+B2C8","U+B2E4",".">>

\* final answer:
FINAL_ANSWER_MARK ==
    <<"f","i","n","a","l"," ","a","n","s","w","e","r",":">>

\* 출처
LABEL_CHULCHEO ==
    <<"U+CD9C","U+CC98">>

\* sources
LABEL_SOURCES ==
    <<"s","o","u","r","c","e","s">>

\* 본문
LABEL_BONMUN ==
    <<"U+BCF8","U+BB38">>

\* 날씨 정보\n지역: 정보 없음\n날씨: 정보 없음\n기온: 정보 없음 
WEATHER_TEXT ==
    <<"U+B0A0","U+C528"," ","U+C815","U+BCF4","\n","U+C9C0","U+C5ED",":",
      " ","U+C815","U+BCF4"," ","U+C5C6","U+C74C","\n","U+B0A0","U+C528",
      ":"," ","U+C815","U+BCF4"," ","U+C5C6","U+C74C","\n","U+AE30",
      "U+C628",":"," ","U+C815","U+BCF4"," ","U+C5C6","U+C74C"," ">>

\* 주가 정보 (SerpAPI - answer_box)\n종목: N/A (N/A)\n거래소: N/A\n현재가: 
FINANCE_HEAD ==
    <<"U+C8FC","U+AC00"," ","U+C815","U+BCF4"," ","(","S","e","r","p","A",
      "P","I"," ","-"," ","a","n","s","w","e","r","_","b","o","x",")","\n",
      "U+C885","U+BAA9",":"," ","N","/","A"," ","(","N","/","A",")","\n",
      "U+AC70","U+B798","U+C18C",":"," ","N","/","A","\n","U+D604","U+C7AC",
      "U+AC00",":"," ">>

\*  \n전일 종가: N/A
FINANCE_TAIL ==
    <<" ","\n","U+C804","U+C77C"," ","U+C885","U+AC00",":"," ","N","/","A">>

\* 간단 정보\n
SIMPLE_HEAD ==
    <<"U+AC04","U+B2E8"," ","U+C815","U+BCF4","\n">>

\* 정보 없음
INFO_NONE ==
    <<"U+C815","U+BCF4"," ","U+C5C6","U+C74C">>

\* 지식 카드\n정보 없음: 설명 없음
KG_TEXT ==
    <<"U+C9C0","U+C2DD"," ","U+CE74","U+B4DC","\n","U+C815","U+BCF4"," ",
      "U+C5C6","U+C74C",":"," ","U+C124","U+BA85"," ","U+C5C6","U+C74C">>

\* \n제목: 
WEB_TITLE ==
    <<"\n","U+C81C","U+BAA9",":"," ">>

\* \n링크: 
WEB_LINK ==
    <<"\n","U+B9C1","U+D06C",":"," ">>

\* \n\n본문:\n
WEB_BODY ==
    <<"\n","\n","U+BCF8","U+BB38",":","\n">>

\* ...
ELLIPSIS ==
    <<".",".",".">>

\* bad_tool is not a valid tool, try one of [serpapi_search, naver_search, ces_search].
InvalidToolText ==
    <<"b","a","d","_","t","o","o","l"," ","i","s"," ","n","o","t"," ","a",
      " ","v","a","l","i","d"," ","t","o","o","l",","," ","t","r","y"," ",
      "o","n","e"," ","o","f"," ","[","s","e","r","p","a","p","i","_","s",
      "e","a","r","c","h",","," ","n","a","v","e","r","_","s","e","a","r",
      "c","h",","," ","c","e","s","_","s","e","a","r","c","h","]",".">>

\* 'NoneType' object has no attribute 'strip'
ATTRIBUTE_ERROR ==
    <<"'","N","o","n","e","T","y","p","e","'"," ","o","b","j","e","c","t",
      " ","h","a","s"," ","n","o"," ","a","t","t","r","i","b","u","t","e",
      " ","'","s","t","r","i","p","'">>

-----------------------------------------------------------------------------
(* utils/helpers.py: parse_agent_observation                               *)

MinOf(S) == CHOOSE i \in S : \A j \in S : i <= j

\* case-insensitive match of the lower-case pattern p at s[i..]
MatchAtCI(s, i, p) ==
    i >= 1 /\ i + Len(p) - 1 <= Len(s) /\ Lower(SubSeq(s, i, i + Len(p) - 1)) = p

HTTP_SCHEME == <<"h","t","t","p",":","/","/">>
HTTPS_SCHEME == <<"h","t","t","p","s",":","/","/">>

\* length of the match of https?:// at s[p..], 0 when there is none
SchemeLen(s, p) ==
    IF MatchAt(s, p, HTTPS_SCHEME) THEN 8
    ELSE IF MatchAt(s, p, HTTP_SCHEME) THEN 7
    ELSE 0

NoNewline(s, a, b) == \A i \in a..b : s[i] # "\n"

\* \[.*?\]\((https?://.*?)\) tried at s[i]: the "](" positions that complete
\* a match
MdCloses(s, i) ==
    {j \in (i + 1)..Len(s) :
        /\ MatchAt(s, j, <<"]", "(">>)
        /\ NoNewline(s, i + 1, j - 1)
        /\ SchemeLen(s, j + 2) > 0
        /\ \E k \in (j + 2 + SchemeLen(s, j + 2))..Len(s) :
              s[k] = ")" /\ NoNewline(s, j + 2, k - 1)}

\* positions from which the markdown pattern matches
MdStarts(s, from) ==
    {i \in from..Len(s) : s[i] = "[" /\ MdCloses(s, i) # {}}

\* re.findall(r"\[.*?\]\((https?://.*?)\)", observation) from position from
RECURSIVE MarkdownLinksFrom(_, _)
MarkdownLinksFrom(s, from) ==
    IF MdStarts(s, from) = {} THEN <<>>
    ELSE LET i == MinOf(MdStarts(s, from))
             j == MinOf(MdCloses(s, i))
             q == j + 2 + SchemeLen(s, j + 2)
             k == MinOf({x \in q..Len(s) : s[x] = ")"})
         IN  <<SubSeq(s, j + 2, k - 1)>> \o MarkdownLinksFrom(s, k + 1)

\* the character class [^\s\"'<>]
IsUrlChar(c) == ~IsSpace(c) /\ c \notin {"\"", "'", "<", ">"}

\* (?<!\]\()(https?://[^\s\"'<>]+) matches at s[p]
PlainStartsAt(s, p) ==
    /\ SchemeLen(s, p) > 0
    /\ ~MatchAt(s, p - 2, <<"]", "(">>)
    /\ p + SchemeLen(s, p) <= Len(s)
    /\ IsUrlChar(s[p + SchemeLen(s, p)])

\* last position of the greedy run [^\s\"'<>]+ that starts at s[p]
RunEnd(s, p) ==
    LET stops == {x \in p..Len(s) : ~IsUrlChar(s[x])}
    IN  IF stops = {} THEN Len(s) ELSE MinOf(stops) - 1

\* re.findall(r"(?<!\]\()(https?://[^\s\"'<>]+)", observation) from position from
RECURSIVE PlainLinksFrom(_, _)
PlainLinksFrom(s, from) ==
    LET starts == {p \in from..Len(s) : PlainStartsAt(s, p)}
    IN  IF starts = {} THEN <<>>
        ELSE LET p == MinOf(starts)
                 e == RunEnd(s, p + SchemeLen(s, p))
             IN  <<SubSeq(s, p, e)>> \o PlainLinksFrom(s, e + 1)

\* found_links_raw
FoundLinksRaw(s) ==
    DedupKeepOrder(MarkdownLinksFrom(s, 1) \o PlainLinksFrom(s, 1))

\* [.,;\'\"]
IsPunct(c) == c \in {".", ",", ";", "'", "\""}

\* the one-character alternatives of trailing_junk_regex:
\* ")" , \s , [.,;'"] and the particles wa, gwa, ro, ui, i, ga, eun, neun
IsJunkChar(c) ==
    \/ c = ")" \/ IsSpace(c) \/ IsPunct(c)
    \/ c \in {"U+C640", "U+ACFC", "U+B85C", "U+C758",
              "U+C774", "U+AC00", "U+C740", "U+B294"}

\* the two-character particles eseo and euro, whose first character is no
\* alternative of its own (i-wa and i-gwa split into one-character ones)
IsJunkPair(a, b) ==
    \/ (a = "U+C5D0" /\ b = "U+C11C")
    \/ (a = "U+C73C" /\ b = "U+B85C")

\* trailing_junk_regex matches s[p..] up to the end of the string
RECURSIVE JunkToEnd(_, _)
JunkToEnd(s, p) ==
    IF p > Len(s) THEN TRUE
    ELSE IF IsJunkChar(s[p]) THEN JunkToEnd(s, p + 1)
    ELSE IF p < Len(s) /\ IsJunkPair(s[p], s[p + 1]) THEN JunkToEnd(s, p + 2)
    ELSE FALSE

\* a cleaning step that leaves the particles in place
KeepTrailingJunk(s) == s

\* trailing_junk_regex.sub("", s): the leftmost match is cut
StripTrailingJunk(s) ==
    SubSeq(s, 1, MinOf({p \in 1..(Len(s) + 1) : JunkToEnd(s, p)}) - 1)

\* simple_trailing_junk_regex.sub("", s)
StripSimpleJunk(s) ==
    LET keep == {i \in 1..Len(s) : ~(s[i] = ")" \/ IsSpace(s[i]) \/ IsPunct(s[i]))}
    IN  IF keep = {} THEN <<>>
        ELSE SubSeq(s, 1, CHOOSE i \in keep : \A j \in keep : i >= j)

\* cleaned, for one raw link
CleanLink(link) == StripSimpleJunk(StripTrailingJunk(Strip(link)))

\* urlparse(url).netloc for a url that starts with http:// or https://
Netloc(url) ==
    LET a == SchemeLen(url, 1) + 1
        stops == {x \in a..Len(url) : url[x] \in {"/", "?", "#"}}
    IN  IF SchemeLen(url, 1) = 0 THEN <<>>
        ELSE SubSeq(url, a, IF stops = {} THEN Len(url) ELSE MinOf(stops) - 1)

\* urlparse raises ValueError when the host has a bracket and is no IP
\* literal; the URLs of the model hold no IP literal
UrlparseRaises(url) ==
    Contains(Netloc(url), <<"[">>) \/ Contains(Netloc(url), <<"]">>)

\* all([result.scheme, result.netloc]), False when urlparse raised
IsValidUrl(url) ==
    SchemeLen(url, 1) > 0 /\ ~UrlparseRaises(url) /\ Netloc(url) # <<>>

\* the loop over found_links_raw that fills cleaned_links
RECURSIVE CleanLinks(_)
CleanLinks(raw) ==
    IF raw = <<>> THEN <<>>
    ELSE LET init == CleanLinks(SubSeq(raw, 1, Len(raw) - 1))
             cleaned == CleanLink(raw[Len(raw)])
         IN  IF IsValidUrl(cleaned) /\ ~(\E i \in 1..Len(init) : init[i] = cleaned)
             THEN Append(init, cleaned)
             ELSE init

\* links
ParsedLinks(s) == CleanLinks(FoundLinksRaw(s))

\* (?:출처|Sources)\s*: matches at s[p]
SourceLabelAt(s, p) ==
    LET n == IF MatchAtCI(s, p, LABEL_CHULCHEO) THEN 2
             ELSE IF MatchAtCI(s, p, LABEL_SOURCES) THEN 7
             ELSE 0
    IN  /\ n > 0
        /\ \E c \in (p + n)..Len(s) :
              s[c] = ":" /\ \A x \in (p + n)..(c - 1) : IsSpace(s[x])

SourceLabels(s) == {p \in 1..Len(s) : SourceLabelAt(s, p)}

\* content_part: match_source.group(1).strip(), or observation
ContentPart(s) ==
    IF SourceLabels(s) = {} THEN s
    ELSE Strip(SubSeq(s, 1, MinOf(SourceLabels(s)) - 1))

\* position of the colon of a leading ^본문\s*: label, 0 when there is none
BodyLabelColon(s) ==
    LET cs == {c \in 3..Len(s) :
                  s[c] = ":" /\ \A x \in 3..(c - 1) : IsSpace(s[x])}
    IN  IF MatchAtCI(s, 1, LABEL_BONMUN) /\ cs # {} THEN MinOf(cs) ELSE 0

\* content after the body label is removed
StripBodyLabel(s) ==
    IF BodyLabelColon(s) > 0 THEN Strip(Drop(s, BodyLabelColon(s))) ELSE s

FinalAnswerMarks(s) == {p \in 1..Len(s) : MatchAtCI(s, p, FINAL_ANSWER_MARK)}

\* possible_content
PossibleContent(s) ==
    Strip(Drop(s, MinOf(FinalAnswerMarks(s)) + Len(FINAL_ANSWER_MARK) - 1))

\* content when the Final Answer mark is not looked at
ContentIgnoringMark(s) == StripBodyLabel(ContentPart(s))

\* content before the final emptiness test
ParsedContent(s) ==
    LET content_part == ContentPart(s)
        content == StripBodyLabel(content_part)
        links == ParsedLinks(s)
    IN  IF FinalAnswerMarks(s) = {} THEN content
        ELSE IF links # <<>> /\ Len(PossibleContent(s)) < Len(content_part)
             THEN PossibleContent(s)
        ELSE IF links = <<>> /\ PossibleContent(s) # <<>>
             THEN PossibleContent(s)
        ELSE content

\* content returned as it is
KeepContent(content) == content

\* if not content: content = placeholder
OrPlaceholder(content) == IF content = <<>> THEN NO_VALID_CONTENT ELSE content

\* parse_agent_observation(observation); obs.isStr is isinstance(observation, str),
\* raised tells whether an exception left the function
parse_agent_observation(obs) ==
    IF ~obs.isStr
    THEN [content |-> PARSE_IMPOSSIBLE, links |-> <<>>, raised |-> FALSE]
    ELSE [content |-> OrPlaceholder(ParsedContent(obs.val)),
          links |-> ParsedLinks(obs.val),
          raised |-> FALSE]

-----------------------------------------------------------------------------
(* utils/html_processor.py: preprocess_html, for a url that is no Naver    *)
(* blog                                                                    *)

\* re.sub(r"<[^>]+>", "", text)
RECURSIVE RemoveTags(_)
RemoveTags(s) ==
    IF s = <<>> THEN <<>>
    ELSE LET closes == {k \in 3..Len(s) : s[k] = ">" /\ \A x \in 2..(k - 1) : s[x] # ">"}
         IN  IF Head(s) = "<" /\ closes # {}
             THEN RemoveTags(Drop(s, MinOf(closes)))
             ELSE <<Head(s)>> \o RemoveTags(Tail(s))

\* the ASCII characters outside [\w\s.,?!]; every other character of the
\* model is a letter
IsSpecialChar(c) ==
    c \in {"<", ">", "/", ":", "-", "(", ")", "[", "]", "'", "\"", ";", "#",
           "=", "&", "*", "+", "@", "%", "$", "^", "~", "|", "{", "}"}

\* re.sub(r"[^\w가-힣\s\.,\?\!]", "", cleaned)
RemoveSpecial(s) == SelectSeq(s, LAMBDA c : ~IsSpecialChar(c))

\* re.sub(r"\s+", " ", cleaned)
RECURSIVE CollapseSpaces(_)
CollapseSpaces(s) ==
    IF s = <<>> THEN <<>>
    ELSE IF IsSpace(Head(s))
         THEN IF Len(s) > 1 /\ IsSpace(s[2])
              THEN CollapseSpaces(Tail(s))
              ELSE <<" ">> \o CollapseSpaces(Tail(s))
    ELSE <<Head(s)>> \o CollapseSpaces(Tail(s))

PreprocessCap == 2000

preprocess_html(text) ==
    Take(Strip(CollapseSpaces(RemoveSpecial(RemoveTags(text)))), PreprocessCap)

-----------------------------------------------------------------------------
(* utils/helpers.py: _extract_and_process_item, format_search_results      *)

\* the (None, None) of a failed item
NoResult == [link |-> <<>>, text |-> <<>>]

\* the pair a task returns once its page is fetched and reduced: html and
\* main are outcomes [kind, val] of extract_text and
\* extract_main_text_from_html
ItemResult(item, html, main) ==
    IF item.link = <<>> THEN NoResult
    ELSE IF html.kind = "raise" \/ html.val = <<>> THEN NoResult
    ELSE IF main.kind # "value" THEN NoResult
    ELSE IF preprocess_html(main.val) = <<>> THEN NoResult
    ELSE [link |-> item.link,
          text |-> DOC_OPEN \o item.title \o DOC_CLOSE \o preprocess_html(main.val)]

\* [f"- {link}" for link in links]
Bullets(links) == [i \in 1..Len(links) |-> LINK_BULLET \o links[i]]

format_search_results(processed_texts, links) ==
    IF processed_texts = <<>> THEN NOTHING_EXTRACTED
    ELSE LET content_str == Join(processed_texts, <<"\n", "\n">>)
             unique_links == DedupKeepOrder(links)
         IN  IF unique_links # <<>>
             THEN BODY_HEADER \o content_str \o SOURCES_HEADER
                    \o Join(Bullets(unique_links), <<"\n">>)
             ELSE BODY_HEADER \o content_str

-----------------------------------------------------------------------------
(* core/pipeline.py: the retrieval adapters run_serpapi_async,             *)
(* run_naver_async and run_ces_async                                       *)

ToolNames == {TOOL_SERPAPI, TOOL_NAVER, TOOL_CES}

UninitText(tool) ==
    IF tool = TOOL_SERPAPI THEN SERP_UNINIT
    ELSE IF tool = TOOL_NAVER THEN NAVER_UNINIT
    ELSE CES_UNINIT

NoItemsText(tool) ==
    IF tool = TOOL_SERPAPI THEN SERP_NO_RESULT
    ELSE IF tool = TOOL_NAVER THEN NAVER_NO_RESULT
    ELSE CES_NO_RESULT

ErrorText(tool, e) ==
    (IF tool = TOOL_SERPAPI THEN SERP_ERROR_PREFIX
     ELSE IF tool = TOOL_NAVER THEN NAVER_ERROR_PREFIX
     ELSE CES_ERROR_PREFIX) \o e

\* the tuple an adapter returns
Pair(text, links) == [links |-> links, text |-> text]

\* valid_texts, valid_links
ValidTexts(results) ==
    LET kept == SelectSeq(results, LAMBDA r : r.text # <<>>)
    IN  [i \in 1..Len(kept) |-> kept[i].text]
ValidLinks(results) ==
    LET kept == SelectSeq(results, LAMBDA r : r.link # <<>>)
    IN  [i \in 1..Len(kept) |-> kept[i].link]

\* what the adapter returns once gather has delivered results
AdapterReturn(results) ==
    Pair(format_search_results(ValidTexts(results), ValidLinks(results)),
         ValidLinks(results))

\* search/serpapi.py: SerpapiEngine.handle_response, for a response whose
\* answer box and knowledge card carry no optional field; text is the main
\* text it extracts from the first organic result
handle_response(resp, text) ==
    IF resp.box = "weather" THEN WEATHER_TEXT
    ELSE IF resp.box = "finance" THEN FINANCE_HEAD \o resp.price \o FINANCE_TAIL
    ELSE IF resp.box = "simple" THEN SIMPLE_HEAD \o INFO_NONE
    ELSE IF resp.kg THEN KG_TEXT
    ELSE IF resp.organic # <<>>
         THEN WEB_SEARCH_PREFIX \o WEB_TITLE \o resp.organic[1].title
                \o WEB_LINK \o resp.organic[1].link \o WEB_BODY \o text \o ELLIPSIS
    ELSE SERP_NO_RESULT

\* items of run_serpapi_async: the organic results that have a link
OrganicItems(resp) == SelectSeq(resp.organic, LAMBDA i : i.link # <<>>)

-----------------------------------------------------------------------------
(* core/pipeline.py: module state and run_pipeline                         *)

VARIABLES
    missing,    \* the components that are None after module import
    memory,     \* memory.chat_memory.messages
    rq,         \* per request: the locals of one run_pipeline call
    ad,         \* one call of a retrieval adapter
    ps          \* one call of parse_agent_observation

vars == <<missing, memory, rq, ad, ps>>

\* the objects run_pipeline tests before it starts
Components ==
    {"llm", "decide_chain", "no_search_chain", "refine_chain", "choose_chain",
     "agent", "search_answer_chain", "fact_check_chain", "parse_agent_observation"}

\* the objects tested again on the search path
SearchComponents ==
    {"agent", "refine_chain", "choose_chain", "search_answer_chain", "fact_check_chain"}

\* requests that may be in flight
Reqs == {"r1", "r2"}

\* the outcome of an awaited call: it raised (val is the message), returned
\* a dict without the key, a dict whose value is no str, or a str value
Outcome(kind, val) == [val |-> val, kind |-> kind]
NoOutcome == Outcome("none", <<>>)

IdleRequest ==
    [pc |-> "idle", query |-> <<>>, fallback |-> FALSE, calls |-> <<>>,
     lastOut |-> NoOutcome, decision |-> <<>>, refined |-> <<>>,
     engine_name |-> <<>>, selected_tool_name |-> <<>>,
     intermediate_steps |-> <<>>, agent_failed |-> FALSE,
     final_answer_str |-> <<>>, original_source_links |-> <<>>,
     agent_observation_for_factcheck |-> <<>>, extracted_content |-> <<>>,
     summary |-> <<>>, agent_observation_body |-> <<>>,
     combined_history |-> <<>>, checked_summary |-> <<>>, result |-> <<>>]

HumanMessage(content) == [content |-> content, role |-> "HumanMessage"]
AIMessage(content) == [content |-> content, role |-> "AIMessage"]

\* dict.get(key, default).strip(): None stands for the AttributeError that
\* .strip() raises on a value that is no str
GetStripped(o, default) ==
    IF o.kind = "missing" THEN [val |-> Strip(default), ok |-> TRUE]
    ELSE IF o.kind = "value" THEN [val |-> Strip(o.val), ok |-> TRUE]
    ELSE [val |-> <<>>, ok |-> FALSE]

\* the decision compared as the chain wrote it, in its own case
DecisionNoUpper(o) ==
    IF GetStripped(o, SEARCH).ok THEN GetStripped(o, SEARCH).val ELSE SEARCH

\* decision, lines 640-647
Decision(o) ==
    IF GetStripped(o, SEARCH).ok THEN Upper(GetStripped(o, SEARCH).val) ELSE SEARCH

\* a guard that does not test the parser
ComponentsReadyNoParser ==
    missing \cap (Components \ {"parse_agent_observation"}) = {}

\* the component guard, lines 626-637
ComponentsReady == missing \cap Components = {}

\* the guard of the search path, lines 664-670
SearchPathReady == missing \cap SearchComponents = {}

\* run_pipeline is called with query q: the guard, then the decision call
Start(r, q) ==
    /\ rq[r].pc = "idle"
    /\ IF ComponentsReady
       THEN rq' = [rq EXCEPT ![r] =
                [IdleRequest EXCEPT !.pc = "decide", !.query = q,
                                    !.decision = SEARCH,
                                    !.calls = <<"decide_chain">>]]
       ELSE rq' = [rq EXCEPT ![r] =
                [IdleRequest EXCEPT !.pc = "done", !.query = q,
                                    !.result = INIT_ERROR]]
    /\ UNCHANGED <<missing, memory, ad, ps>>

\* the locals set at lines 697-706, and the refine call
EnterSearchPath(req) ==
    [req EXCEPT !.pc = "refine", !.refined = req.query,
                !.engine_name = ENGINE_CES,
                !.calls = Append(req.calls, "refine_chain")]

\* add_user_message, then the no_search_chain call (lines 652-654, 686-688)
EnterNoSearch(req, isFallback) ==
    [req EXCEPT !.pc = "nosearch", !.fallback = isFallback,
                !.calls = Append(req.calls, "no_search_chain")]

\* decide_chain returned or raised: lines 641-650 and 664-688
DecideReturn(r, o) ==
    /\ rq[r].pc = "decide"
    /\ LET req == [rq[r] EXCEPT !.decision = Decision(o), !.lastOut = o]
       IN  IF req.decision = NO_SEARCH
           THEN /\ memory' = Append(memory, HumanMessage(req.query))
                /\ rq' = [rq EXCEPT ![r] = EnterNoSearch(req, FALSE)]
           ELSE IF ~SearchPathReady
           THEN /\ memory' = Append(memory, HumanMessage(req.query))
                /\ rq' = [rq EXCEPT ![r] = EnterNoSearch(req, TRUE)]
           ELSE /\ memory' = memory
                /\ rq' = [rq EXCEPT ![r] = EnterSearchPath(req)]
    /\ UNCHANGED <<missing, ad, ps>>

NoSearchCap == 50
FallbackCap == 20

\* answer, lines 655 and 689
DirectAnswer(o, isFallback) ==
    IF isFallback
    THEN Take(GetStripped(o, FALLBACK_DEFAULT).val, FallbackCap)
    ELSE Take(GetStripped(o, NO_ANSWER_DEFAULT).val, NoSearchCap)

\* what the except clauses of lines 659-660 and 693-695 return
DirectAnswerError(isFallback) ==
    IF isFallback THEN FALLBACK_ERROR ELSE NO_SEARCH_ERROR

\* a request that stops because an exception left run_pipeline
PropagateDirectAnswer(req, o) == [req EXCEPT !.pc = "raised", !.lastOut = o]

\* except Exception: return the fixed text (lines 659-660 and 693-695)
ExceptDirectAnswer(req, o) ==
    [req EXCEPT !.pc = "done", !.lastOut = o,
                !.result = DirectAnswerError(req.fallback)]

\* no_search_chain returned or raised: lines 654-660 and 688-695
NoSearchReturn(r, o) ==
    /\ rq[r].pc = "nosearch"
    /\ IF GetStripped(o, <<>>).ok
       THEN LET answer == DirectAnswer(o, rq[r].fallback)
            IN  /\ memory' = Append(memory, AIMessage(answer))
                /\ rq' = [rq EXCEPT ![r].pc = "done", ![r].lastOut = o,
                                    ![r].result = answer]
       ELSE /\ memory' = memory
            /\ rq' = [rq EXCEPT ![r] = ExceptDirectAnswer(rq[r], o)]
    /\ UNCHANGED <<missing, ad, ps>>

\* a refinement that keeps an empty result
RefinedNoFallback(o, query) ==
    IF o.kind = "str" THEN Strip(o.val)
    ELSE IF o.kind \in {"value", "missing"} /\ GetStripped(o, query).ok
         THEN GetStripped(o, query).val
    ELSE query

\* refined, lines 709-720; o.kind is "str" for a str result and "other" for
\* a result that is neither dict nor str
Refined(o, query) ==
    LET r0 == IF o.kind = "str" THEN Strip(o.val)
              ELSE IF o.kind \in {"value", "missing"} /\ GetStripped(o, query).ok
                   THEN GetStripped(o, query).val
              ELSE query
    IN  IF o.kind \in {"raise", "nonstr"} \/ r0 = <<>> THEN query ELSE r0

\* refine_chain returned or raised: lines 709-724
RefineReturn(r, o) ==
    /\ rq[r].pc = "refine"
    /\ rq' = [rq EXCEPT ![r].pc = "choose", ![r].lastOut = o,
                        ![r].refined = Refined(o, rq[r].query),
                        ![r].calls = Append(rq[r].calls, "choose_chain")]
    /\ UNCHANGED <<missing, memory, ad, ps>>

EngineNames == {ENGINE_SERPAPI, ENGINE_NAVER, ENGINE_CES}

\* the engine name compared without lower-casing
EngineNameNoLower(o) ==
    LET raw == GetStripped(o, CES_DEFAULT)
        name == RemoveNonLetters(raw.val)
    IN  IF raw.ok /\ name \in EngineNames THEN name ELSE ENGINE_CES

\* the engine name with naver as the default
EngineNameNaverDefault(o) ==
    LET raw == GetStripped(o, CES_DEFAULT)
        name == Lower(RemoveNonLetters(raw.val))
    IN  IF raw.ok /\ name \in EngineNames THEN name ELSE ENGINE_NAVER

\* engine_name, lines 723-733
EngineName(o) ==
    LET raw == GetStripped(o, CES_DEFAULT)
        name == Lower(RemoveNonLetters(raw.val))
    IN  IF raw.ok /\ name \in EngineNames THEN name ELSE ENGINE_CES

\* tool_map.get(engine_name, "ces_search"), lines 736-741
SelectedTool(engine_name) ==
    IF engine_name = ENGINE_SERPAPI THEN TOOL_SERPAPI
    ELSE IF engine_name = ENGINE_NAVER THEN TOOL_NAVER
    ELSE TOOL_CES

\* choose_chain returned or raised: lines 723-749
ChooseReturn(r, o) ==
    /\ rq[r].pc = "choose"
    /\ rq' = [rq EXCEPT ![r].pc = "agent", ![r].lastOut = o,
                        ![r].engine_name = EngineName(o),
                        ![r].selected_tool_name = SelectedTool(EngineName(o)),
                        ![r].calls = Append(rq[r].calls, "agent")]
    /\ UNCHANGED <<missing, memory, ad, ps>>

\* max_iterations of initialize_agent
max_iterations == 5

\* steps of the reasoning loop the model follows
MaxAgentSteps == 2

\* one element of intermediate_steps: the tool the action names and the
\* observation, a (str, list) tuple of an adapter or a plain str
TraceStep(tool, obs) == [obs |-> obs, tool |-> tool]
PairObs(p) == [links |-> p.links, text |-> p.text, kind |-> "pair"]
StrObs(text) == [links |-> <<>>, text |-> text, kind |-> "str"]

\* the tests of lines 756-772 on one step
IsRetrievalStep(step) == step.tool \in ToolNames /\ step.obs.kind = "pair"

\* a walk that stops at the oldest retrieval step
FoundStepOldest(steps) ==
    LET hits == {i \in 1..Len(steps) : IsRetrievalStep(steps[i])}
    IN  IF hits = {} THEN 0 ELSE CHOOSE i \in hits : \A j \in hits : i <= j

\* the step at which "for step in reversed(intermediate_steps)" breaks,
\* 0 when it runs to the end
FoundStep(steps) ==
    LET hits == {i \in 1..Len(steps) : IsRetrievalStep(steps[i])}
    IN  IF hits = {} THEN 0 ELSE CHOOSE i \in hits : \A j \in hits : i >= j

SummaryMarkers == {MARK_ORYU, MARK_SILPAE, MARK_EOPSEUM, MARK_BULGA, MARK_SORRY}
FactCheckMarkers == {MARK_ORYU, MARK_UNVERIFIABLE, MARK_UNFIXABLE}

\* extracted_content, lines 802-810
ExtractedContent(final_answer_str) ==
    IF final_answer_str # <<>>
    THEN LET parsed_body ==
                 parse_agent_observation([isStr |-> TRUE, val |-> final_answer_str]).content
         IN  IF parsed_body # <<>> THEN parsed_body ELSE final_answer_str
    ELSE NO_FINAL_ANSWER

\* the condition of lines 814-821 under which the summary chain is called
NeedsSummary(extracted_content) ==
    extracted_content # <<>> /\ ~ContainsAny(extracted_content, SummaryMarkers)

\* history_text, lines 845-856
HistoryText(mem) ==
    LET last2 == SubSeq(mem, Max(1, Len(mem) - 1), Len(mem))
        text == Join([i \in 1..Len(last2) |->
                         (IF last2[i].role = "HumanMessage" THEN HUMAN_PREFIX
                          ELSE AI_PREFIX) \o last2[i].content], <<"\n">>)
    IN  IF text = <<>> THEN NO_HISTORY ELSE text

GroundingCap == 2000

\* agent_observation_body, lines 859-865
ObservationBody(agent_observation_for_factcheck) ==
    IF Strip(agent_observation_for_factcheck) # <<>>
    THEN Strip(agent_observation_for_factcheck)
    ELSE NO_BODY_CONTENT

\* combined_history, line 871
CombinedHistory(body, history_text) ==
    EVIDENCE_HEADER \o Take(body, GroundingCap) \o HISTORY_HEADER \o history_text

\* lines 841-875: the arguments of the fact-check call are built and the
\* chain is called
CallFactCheck(req, mem) ==
    [req EXCEPT !.pc = "factcheck",
                !.checked_summary = req.summary,
                !.agent_observation_body =
                    ObservationBody(req.agent_observation_for_factcheck),
                !.combined_history =
                    CombinedHistory(ObservationBody(req.agent_observation_for_factcheck),
                                    HistoryText(mem)),
                !.calls = Append(req.calls, "fact_check_chain")]

\* lines 812-826: the summary chain is called or skipped
CallSummaryOrSkip(req, mem) ==
    IF NeedsSummary(req.extracted_content)
    THEN [req EXCEPT !.pc = "summary",
                     !.calls = Append(req.calls, "search_answer_chain")]
    ELSE CallFactCheck(req, mem)

\* evidence that is never replaced by the final answer
EvidenceNoFallback(obs_str, final_answer_str) == obs_str

\* agent_observation_for_factcheck after lines 788-789
Evidence(obs_str, final_answer_str) ==
    IF obs_str # <<>> THEN obs_str ELSE final_answer_str

\* the locals after the try block of lines 745-795, given how agent.ainvoke
\* ended
AfterAgent(req, o) ==
    IF o.kind \in {"raise", "nonstr"}
    THEN [req EXCEPT !.lastOut = o, !.agent_failed = TRUE,
                     !.final_answer_str = AGENT_ERROR_PREFIX \o
                         (IF o.kind = "raise" THEN o.val ELSE ATTRIBUTE_ERROR),
                     !.agent_observation_for_factcheck = <<>>,
                     !.original_source_links = <<>>]
    ELSE LET final == GetStripped(o, <<>>).val
             k == FoundStep(req.intermediate_steps)
             obs_str == IF k = 0 THEN <<>> ELSE req.intermediate_steps[k].obs.text
             src_links == IF k = 0 THEN <<>> ELSE req.intermediate_steps[k].obs.links
         IN  [req EXCEPT !.lastOut = o,
                         !.final_answer_str = final,
                         !.original_source_links = src_links,
                         !.agent_observation_for_factcheck = Evidence(obs_str, final)]

\* the reasoning loop takes one step: the action names a tool and the
\* executor records what the tool returned
AgentStep(r, tool, obs) ==
    /\ rq[r].pc = "agent"
    /\ Len(rq[r].intermediate_steps) < Min(max_iterations, MaxAgentSteps)
    /\ rq' = [rq EXCEPT ![r].intermediate_steps = Append(@, TraceStep(tool, obs)),
                        ![r].lastOut = Outcome("value", obs.text)]
    /\ UNCHANGED <<missing, memory, ad, ps>>

\* agent.ainvoke returned or raised: lines 745-826, up to the next call
AgentReturn(r, o) ==
    /\ rq[r].pc = "agent"
    /\ LET mem == Append(memory, HumanMessage(rq[r].query))
           req == AfterAgent(rq[r], o)
           ext == [req EXCEPT !.extracted_content = ExtractedContent(req.final_answer_str),
                              !.summary = ExtractedContent(req.final_answer_str)]
       IN  /\ memory' = mem
           /\ rq' = [rq EXCEPT ![r] = CallSummaryOrSkip(ext, mem)]
    /\ UNCHANGED <<missing, ad, ps>>

\* summary, lines 823-834
Summary(o, extracted_content) ==
    IF GetStripped(o, <<>>).ok /\ GetStripped(o, <<>>).val # <<>>
    THEN GetStripped(o, <<>>).val
    ELSE extracted_content

\* search_answer_chain returned or raised: lines 823-875
SummaryReturn(r, o) ==
    /\ rq[r].pc = "summary"
    /\ rq' = [rq EXCEPT ![r] =
                CallFactCheck([rq[r] EXCEPT !.lastOut = o,
                                            !.summary = Summary(o, rq[r].extracted_content)],
                              memory)]
    /\ UNCHANGED <<missing, memory, ad, ps>>

\* a test that accepts every output that is not empty
CheckedSummaryNoMarkers(o, summary) ==
    IF GetStripped(o, <<>>).ok /\ GetStripped(o, <<>>).val # <<>>
    THEN GetStripped(o, <<>>).val
    ELSE summary

\* checked_summary, lines 876-887
CheckedSummary(o, summary) ==
    LET temp_checked == GetStripped(o, <<>>)
    IN  IF temp_checked.ok /\ temp_checked.val # <<>>
           /\ ~ContainsAny(temp_checked.val, FactCheckMarkers)
        THEN temp_checked.val
        ELSE summary

\* an answer that gets the sources header whatever the links are
AlwaysWithSources(checked_summary, original_source_links) ==
    checked_summary \o SOURCES_HEADER
        \o Join(Bullets(DedupKeepOrder(original_source_links)), <<"\n">>)

\* final_answer_with_links, lines 892-910
FinalAnswerWithLinks(checked_summary, original_source_links) ==
    LET unique_links == DedupKeepOrder(original_source_links)
    IN  IF unique_links # <<>>
        THEN checked_summary \o SOURCES_HEADER \o Join(Bullets(unique_links), <<"\n">>)
        ELSE checked_summary

\* a memory that keeps the answer without its sources block
StoredBody(final_answer_body, final_answer_with_links) == final_answer_body

\* the text given to add_ai_message, line 916
StoredAnswer(final_answer_body, final_answer_with_links) == final_answer_with_links

\* fact_check_chain returned or raised: lines 873-924
FactCheckReturn(r, o) ==
    /\ rq[r].pc = "factcheck"
    /\ LET checked == CheckedSummary(o, rq[r].summary)
           final == FinalAnswerWithLinks(checked, rq[r].original_source_links)
       IN  /\ memory' = Append(memory, AIMessage(StoredAnswer(checked, final)))
           /\ rq' = [rq EXCEPT ![r].pc = "done", ![r].lastOut = o,
                               ![r].checked_summary = checked,
                               ![r].result = final]
    /\ UNCHANGED <<missing, ad, ps>>

-----------------------------------------------------------------------------
(* One call of a retrieval adapter, with its item tasks running            *)
(* concurrently under asyncio.gather                                       *)

\* a response of serp.search without answer box, knowledge card or results
NoResponse == [box |-> "none", price |-> <<>>, kg |-> FALSE, organic |-> <<>>]

IdleAdapter ==
    [tool |-> <<>>, resp |-> NoResponse, pc |-> "idle", items |-> <<>>, tasks |-> <<>>,
     order |-> <<>>, valid_texts |-> <<>>, valid_links |-> <<>>,
     ret |-> Pair(<<>>, <<>>)]

\* serp, naver, ces: the engine object of a tool is not None
EngineReady(tool) ==
    IF tool = TOOL_SERPAPI THEN "serp" \notin missing
    ELSE IF tool = TOOL_NAVER THEN "naver" \notin missing
    ELSE "ces" \notin missing

\* the helpers of utils.helpers come from one import (lines 35-46)
HelpersImported == "parse_agent_observation" \notin missing

\* the adapter returns p
Returned(p) == [ad EXCEPT !.pc = "done", !.ret = p]

\* a call that stops because an exception left the adapter
PropagateAdapter(tool, e) == [ad EXCEPT !.pc = "raised"]

\* except Exception: the error text and no links (lines 513-515, 534-536, 556-558)
ExceptAdapter(tool, e) == Returned(Pair(ErrorText(tool, e), <<>>))

\* run_*_async(query) is called: the two guards, then the search call
AdapterCall(tool) ==
    /\ ad.pc = "idle"
    /\ ad' = IF ~EngineReady(tool)
             THEN [Returned(Pair(UninitText(tool), <<>>)) EXCEPT !.tool = tool]
             ELSE IF ~HelpersImported
             THEN [Returned(Pair(HELPER_IMPORT_FAILED, <<>>)) EXCEPT !.tool = tool]
             ELSE [ad EXCEPT !.pc = "search", !.tool = tool]
    /\ UNCHANGED <<missing, memory, rq, ps>>

\* a task of gather, suspended in its first to_thread call
NewTask(item) ==
    [item |-> item, html |-> NoOutcome, main |-> NoOutcome, pc |-> "extract_text",
     result |-> NoResult]

\* tasks = [...]; results = await asyncio.gather(*tasks)
StartGather(items) ==
    [ad EXCEPT !.pc = "gather", !.items = items,
               !.tasks = [i \in 1..Len(items) |->
                             IF items[i].link = <<>>
                             THEN [NewTask(items[i]) EXCEPT !.pc = "done"]
                             ELSE NewTask(items[i])],
               !.order = SelectSeq([i \in 1..Len(items) |-> i],
                                   LAMBDA i : items[i].link = <<>>)]

\* engine.search returned items or raised (run_naver_async, run_ces_async),
\* or serp.search returned a response (run_serpapi_async)
SearchReturn(o) ==
    /\ ad.pc = "search"
    /\ ad' = IF o.kind = "raise" THEN ExceptAdapter(ad.tool, o.val)
             ELSE IF ad.tool = TOOL_SERPAPI THEN [ad EXCEPT !.pc = "handle", !.resp = o.val]
             ELSE IF o.val = <<>> THEN Returned(Pair(NoItemsText(ad.tool), <<>>))
             ELSE StartGather(o.val)
    /\ UNCHANGED <<missing, memory, rq, ps>>

\* a test that sends every answer but "no result" on to the organic results
ReturnsOnlyNoResult(handled_result) == handled_result = SERP_NO_RESULT

\* the tests of lines 483-489 under which handled_result is returned as it
\* is, with no links
ReturnsHandled(handled_result) ==
    LET is_generic_web_search == StartsWith(handled_result, WEB_SEARCH_PREFIX)
        is_no_result == handled_result = SERP_NO_RESULT
    IN  ~is_generic_web_search \/ is_no_result

\* serp.handle_response returned or raised: lines 482-503
HandleReturn(o) ==
    /\ ad.pc = "handle"
    /\ ad' = IF o.kind = "raise" THEN ExceptAdapter(ad.tool, o.val)
             ELSE LET handled_result == handle_response(ad.resp, o.val)
                  IN  IF ReturnsHandled(handled_result)
                      THEN Returned(Pair(handled_result, <<>>))
                      ELSE IF OrganicItems(ad.resp) = <<>>
                      THEN Returned(Pair(SERP_NO_RESULT, <<>>))
                      ELSE StartGather(OrganicItems(ad.resp))
    /\ UNCHANGED <<missing, memory, rq, ps>>

\* task i ends with the pair that its outcomes give
TaskDone(i, html, main) ==
    [ad EXCEPT !.tasks[i].pc = "done", !.tasks[i].html = html, !.tasks[i].main = main,
               !.tasks[i].result = ItemResult(ad.tasks[i].item, html, main),
               !.order = Append(ad.order, i)]

\* engine.extract_text returned or raised in task i: helpers.py lines 36-37
ExtractTextReturn(i, o) ==
    /\ ad.pc = "gather"
    /\ i \in 1..Len(ad.tasks)
    /\ ad.tasks[i].pc = "extract_text"
    /\ ad' = IF o.kind = "raise" \/ o.val = <<>>
             THEN TaskDone(i, o, NoOutcome)
             ELSE [ad EXCEPT !.tasks[i].pc = "extract_main", !.tasks[i].html = o]
    /\ UNCHANGED <<missing, memory, rq, ps>>

\* engine.extract_main_text_from_html returned or raised in task i: lines 39-45
ExtractMainReturn(i, o) ==
    /\ ad.pc = "gather"
    /\ i \in 1..Len(ad.tasks)
    /\ ad.tasks[i].pc = "extract_main"
    /\ ad' = IF o.kind = "raise"
             THEN TaskDone(i, ad.tasks[i].html, o)
             ELSE [ad EXCEPT !.tasks[i].pc = "preprocess", !.tasks[i].main = o]
    /\ UNCHANGED <<missing, memory, rq, ps>>

\* preprocess_html returned or raised in task i: lines 43-56
PreprocessReturn(i) ==
    /\ ad.pc = "gather"
    /\ i \in 1..Len(ad.tasks)
    /\ ad.tasks[i].pc = "preprocess"
    /\ ad' = TaskDone(i, ad.tasks[i].html, ad.tasks[i].main)
    /\ UNCHANGED <<missing, memory, rq, ps>>

\* results in the order in which the tasks ended
GatherInCompletionOrder(tasks, order) == [i \in 1..Len(order) |-> tasks[order[i]].result]

\* results of gather: one pair per task, in the order of the tasks
GatherResults(tasks, order) == [i \in 1..Len(tasks) |-> tasks[i].result]

\* every task is done and gather delivers: pipeline.py lines 504-511
GatherReturn ==
    /\ ad.pc = "gather"
    /\ \A i \in 1..Len(ad.tasks) : ad.tasks[i].pc = "done"
    /\ LET results == GatherResults(ad.tasks, ad.order)
       IN  ad' = [ad EXCEPT !.pc = "done",
                            !.valid_texts = ValidTexts(results),
                            !.valid_links = ValidLinks(results),
                            !.ret = AdapterReturn(results)]
    /\ UNCHANGED <<missing, memory, rq, ps>>

-----------------------------------------------------------------------------
(* One call of parse_agent_observation                                     *)

IdleParser ==
    [content |-> <<>>, links |-> <<>>, pc |-> "idle",
     observation |-> [isStr |-> TRUE, val |-> <<>>], reparsed |-> <<>>]

\* parse_agent_observation(obs) is called and returns or raises
Parse(obs) ==
    /\ ps.pc = "idle"
    /\ LET parsed == parse_agent_observation(obs)
       IN  ps' = [content |-> parsed.content,
                  links |-> parsed.links,
                  pc |-> IF parsed.raised THEN "raised" ELSE "done",
                  observation |-> obs,
                  reparsed |-> <<>>]
    /\ UNCHANGED <<missing, memory, rq, ad>>

\* a text made of links, one link on a line
LinksText(links) == Join(links, <<"\n">>)

\* parse_agent_observation is called again, with the links it returned
Reparse ==
    /\ ps.pc = "done"
    /\ ps' = [ps EXCEPT !.pc = "reparsed",
                        !.reparsed =
                            parse_agent_observation(
                                [isStr |-> TRUE, val |-> LinksText(ps.links)]).links]
    /\ UNCHANGED <<missing, memory, rq, ad>>

-----------------------------------------------------------------------------
(* The inputs the model draws from                                         *)

\* ㅇ
QueryShort ==
    <<"U+3147">>

\* nvda?
QueryStock ==
    <<"n","v","d","a","?">>

\* http://a
LinkA ==
    <<"h","t","t","p",":","/","/","a">>

\* https://b/c
LinkB ==
    <<"h","t","t","p","s",":","/","/","b","/","c">>

\* A
TitleA ==
    <<"A">>

\* B
TitleB ==
    <<"B">>

\* <p>up 3%</p>
PageA ==
    <<"<","p",">","u","p"," ","3","%","<","/","p",">">>

\* b  b
PageB ==
    <<"b"," "," ","b">>

\* <br/>
PageTagsOnly ==
    <<"<","b","r","/",">">>

\* 100
Price ==
    <<"1","0","0">>

\* boom
Boom ==
    <<"b","o","o","m">>

\*  no_search\n
DecideLower ==
    <<" ","n","o","_","s","e","a","r","c","h","\n">>

\* NO_SEARCH.
DecideDotted ==
    <<"N","O","_","S","E","A","R","C","H",".">>

\*  네 
AnswerShort ==
    <<" ","U+B124"," ">>

\*   
AnswerBlank ==
    <<" "," ">>

\*  nvda price 
RefinedText ==
    <<" ","n","v","d","a"," ","p","r","i","c","e"," ">>

\* Naver
ChooseNaver ==
    <<"N","a","v","e","r">>

\*  'SerpAPI'\n
ChooseSerp ==
    <<" ","'","S","e","r","p","A","P","I","'","\n">>

\* CES.
ChooseCes ==
    <<"C","E","S",".">>

\* Google
ChooseGoogle ==
    <<"G","o","o","g","l","e">>

\* 네이버
ChooseKorean ==
    <<"U+B124","U+C774","U+BC84">>

\* up 3%.
OutPlain ==
    <<"u","p"," ","3","%",".">>

\* Thought: done\nFinal Answer: up\n출처: http://a
OutFinal ==
    <<"T","h","o","u","g","h","t",":"," ","d","o","n","e","\n","F","i","n",
      "a","l"," ","A","n","s","w","e","r",":"," ","u","p","\n","U+CD9C",
      "U+CC98",":"," ","h","t","t","p",":","/","/","a">>

\* 검색 실패
OutMarker ==
    <<"U+AC80","U+C0C9"," ","U+C2E4","U+D328">>

\*  \n
OutBlank ==
    <<" ","\n">>

\* sum
SummaryText ==
    <<"s","u","m">>

\*  ok\n
CheckedText ==
    <<" ","o","k","\n">>

\* 수정 불가
CheckedRejected ==
    <<"U+C218","U+C815"," ","U+BD88","U+AC00">>

\* Thought: I know\nFinal Answer: 
ParseHeadTrace ==
    <<"T","h","o","u","g","h","t",":"," ","I"," ","k","n","o","w","\n","F",
      "i","n","a","l"," ","A","n","s","w","e","r",":"," ">>

\* see [s](https://b/c)에서
ParseBodyMarkdown ==
    <<"s","e","e"," ","[","s","]","(","h","t","t","p","s",":","/","/","b",
      "/","c",")","U+C5D0","U+C11C">>

\* (http://a).
ParseBodyPlain ==
    <<"(","h","t","t","p",":","/","/","a",")",".">>

\* \n\n출처:\n- http://a
ParseTailSources ==
    <<"\n","\n","U+CD9C","U+CC98",":","\n","-"," ","h","t","t","p",":","/",
      "/","a">>

\* \nSources : http://a, http://a
ParseTailEnglish ==
    <<"\n","S","o","u","r","c","e","s"," ",":"," ","h","t","t","p",":","/",
      "/","a",","," ","h","t","t","p",":","/","/","a">>

\* \nfinal answer: ok
ParseTailFinal ==
    <<"\n","f","i","n","a","l"," ","a","n","s","w","e","r",":"," ","o","k">>

\* 본문 :\n
ParseHeadBody ==
    <<"U+BCF8","U+BB38"," ",":","\n">>

\* x http://[a y
ParseBodyBracket ==
    <<"x"," ","h","t","t","p",":","/","/","[","a"," ","y">>

\*  https://b/c는, 
ParseTailParticle ==
    <<" ","h","t","t","p","s",":","/","/","b","/","c","U+B294",","," ">>

\* 네이버 naver
ChooseMixed ==
    <<"U+B124","U+C774","U+BC84"," ","n","a","v","e","r">>

\* data:,x
LinkNoHost ==
    <<"d","a","t","a",":",",","x">>

\* [x](http://a b)
ParseBodySpaced ==
    <<"[","x","]","(","h","t","t","p",":","/","/","a"," ","b",")">>

\* http://a/가
LinkParticle ==
    <<"h","t","t","p",":","/","/","a","/","U+AC00">>

\* http://a [s](https://b/c)
ParseBodyBareFirst ==
    <<"h","t","t","p",":","/","/","a"," ","[","s","]","(","h","t","t","p","s",
      ":","/","/","b","/","c",")">>

\* \n출처: http://a\nFinal Answer: it is up
ParseTailLabelFinal ==
    <<"\n","U+CD9C","U+CC98",":"," ","h","t","t","p",":","/","/","a","\n","F",
      "i","n","a","l"," ","A","n","s","w","e","r",":"," ","i","t"," ","i","s",
      " ","u","p">>

\* it is up
ParseFinalText ==
    <<"i","t"," ","i","s"," ","u","p">>
\* a direct answer longer than both caps
AnswerLong == [i \in 1..(NoSearchCap + 2) |-> "a"]

Queries == {QueryShort, QueryStock}

\* raise, missing key, value that is no str
Failures == {Outcome("raise", Boom), Outcome("missing", <<>>), Outcome("nonstr", <<>>)}

Values(S) == {Outcome("value", v) : v \in S}

DecideOutcomes == Failures \cup Values({NO_SEARCH, DecideLower, DecideDotted, SEARCH, <<>>})

NoSearchOutcomes == Failures \cup Values({AnswerShort, AnswerBlank, AnswerLong})

RefineOutcomes ==
    Failures \cup Values({RefinedText, AnswerBlank})
       \cup {Outcome("str", RefinedText), Outcome("str", <<>>), Outcome("other", <<>>)}

ChooseOutcomes ==
    Failures \cup Values({ChooseNaver, ChooseSerp, ChooseCes, ChooseGoogle, ChooseKorean, ChooseMixed})

AgentOutcomes == Failures \cup Values({OutPlain, OutFinal, OutMarker, OutBlank})

SummaryOutcomes == Failures \cup Values({SummaryText, <<>>})

FactCheckOutcomes == Failures \cup Values({CheckedText, CheckedRejected, <<>>})

ItemA == [link |-> LinkA, title |-> TitleA]
ItemB == [link |-> LinkB, title |-> TitleB]

\* an item whose link has a scheme and no host
ItemC == [link |-> LinkNoHost, title |-> TitleB]

\* the pairs of two pages that were fetched and reduced
ResultA == ItemResult(ItemA, Outcome("value", PageA), Outcome("value", PageA))
ResultB == ItemResult(ItemB, Outcome("value", PageB), Outcome("value", PageB))
ResultC == ItemResult(ItemC, Outcome("value", PageB), Outcome("value", PageB))

\* the results of a search that returned one page twice and, between the
\* two, a page whose link has no host
ResultsRepeated == <<ResultA, ResultC, ResultA>>

WeatherResponse == [NoResponse EXCEPT !.box = "weather"]

\* what the tool named by an action returned to the reasoning loop
StepObservations(tool) ==
    IF tool = TOOL_SERPAPI
    THEN {PairObs(Pair(handle_response(WeatherResponse, <<>>), <<>>))}
    ELSE IF tool = TOOL_NAVER
    THEN {PairObs(AdapterReturn(ResultsRepeated)),
          PairObs(Pair(NoItemsText(TOOL_NAVER), <<>>))}
    ELSE IF tool = TOOL_CES
    THEN {PairObs(Pair(ErrorText(TOOL_CES, Boom), <<>>))}
    ELSE {StrObs(InvalidToolText)}

\* a tool name the executor does not know
BadTool == <<"b","a","d","_","t","o","o","l">>

\* objects that failed to construct at import in one run of the model
MaxMissing == 1

\* result items of one search call
MaxItems == 2

\* the objects built at import: the components and the three engines
Objects == Components \cup {"serp", "naver", "ces"}

\* tools is empty unless all engines exist, and agent is None unless tools
\* and llm exist (lines 563, 595)
MissingAfterImport(failed) ==
    failed \cup (IF failed \cap {"llm", "serp", "naver", "ces"} # {} THEN {"agent"} ELSE {})

ModuleStates ==
    {MissingAfterImport(f) : f \in {m \in SUBSET Objects : Cardinality(m) <= MaxMissing}}

TypeOK ==
    /\ missing \subseteq Objects
    /\ \A r \in Reqs :
          rq[r].pc \in {"idle", "decide", "nosearch", "refine", "choose", "agent",
                        "summary", "factcheck", "done", "raised"}
    /\ ad.pc \in {"idle", "search", "handle", "gather", "done", "raised"}
    /\ ps.pc \in {"idle", "done", "reparsed", "raised"}

\* the state after import
Init ==
    /\ missing \in ModuleStates
    /\ memory = <<>>
    /\ rq = [r \in Reqs |-> IdleRequest]
    /\ ad = IdleAdapter
    /\ ps = IdleParser

\* one session: requests come one after the other
Session == {"r1"}

Receive(r) == \E q \in Queries : Start(r, q)
Decided(r) == \E o \in DecideOutcomes : DecideReturn(r, o)
DirectAnswered(r) == \E o \in NoSearchOutcomes : NoSearchReturn(r, o)
Refinement(r) == \E o \in RefineOutcomes : RefineReturn(r, o)
Selection(r) == \E o \in ChooseOutcomes : ChooseReturn(r, o)
LoopStep(r) ==
    \E tool \in ToolNames \cup {BadTool} :
        \E obs \in StepObservations(tool) : AgentStep(r, tool, obs)
LoopEnd(r) == \E o \in AgentOutcomes : AgentReturn(r, o)
Summarized(r) == \E o \in SummaryOutcomes : SummaryReturn(r, o)
FactChecked(r) == \E o \in FactCheckOutcomes : FactCheckReturn(r, o)

Next ==
    \E r \in Session :
        \/ Receive(r)
        \/ Decided(r)
        \/ DirectAnswered(r)
        \/ Refinement(r)
        \/ Selection(r)
        \/ LoopStep(r)
        \/ LoopEnd(r)
        \/ Summarized(r)
        \/ FactChecked(r)

\* run_pipeline, one request per run
Spec == Init /\ [][Next]_vars

\* the stages in which a request waits for an awaited call
Stages == {"decide", "nosearch", "refine", "choose", "agent", "summary", "factcheck"}

\* run_pipeline where every awaited call ends, by returning or by raising:
\* no request waits in a stage forever. The return of a stage is enabled as
\* long as the request is in the stage, so this is the weak fairness of the
\* returns, stated on the states.
LiveSpec == Spec /\ \A r \in Session : \A s \in Stages : []<>(rq[r].pc # s)

\* two calls of run_pipeline in flight on one event loop: every awaited
\* call returns a value, and the query and the answers tell the two apart
ConcQuery(r) == IF r = "r1" THEN QueryShort ELSE QueryStock
ConcAnswer(r) == IF r = "r1" THEN AnswerShort ELSE AnswerLong
ConcChecked(r) == IF r = "r1" THEN CheckedText ELSE OutPlain

ConcReceive(r) == Start(r, ConcQuery(r))
ConcDecided(r) == \E d \in {NO_SEARCH, SEARCH} : DecideReturn(r, Outcome("value", d))
ConcDirectAnswered(r) == NoSearchReturn(r, Outcome("value", ConcAnswer(r)))
ConcRefinement(r) == RefineReturn(r, Outcome("value", RefinedText))
ConcSelection(r) == ChooseReturn(r, Outcome("value", ChooseNaver))
ConcLoopStep(r) ==
    /\ rq[r].intermediate_steps = <<>>
    /\ AgentStep(r, TOOL_NAVER, PairObs(Pair(NoItemsText(TOOL_NAVER), <<>>)))
ConcLoopEnd(r) == AgentReturn(r, Outcome("value", OutPlain))
ConcSummarized(r) == SummaryReturn(r, Outcome("value", SummaryText))
ConcFactChecked(r) == FactCheckReturn(r, Outcome("value", ConcChecked(r)))

\* a coroutine runs from the return of one awaited call to the next await;
\* the event loop picks which of the two resumes
ConcNext ==
    \E r \in Reqs :
        \/ ConcReceive(r)
        \/ ConcDecided(r)
        \/ ConcDirectAnswered(r)
        \/ ConcRefinement(r)
        \/ ConcSelection(r)
        \/ ConcLoopStep(r)
        \/ ConcLoopEnd(r)
        \/ ConcSummarized(r)
        \/ ConcFactChecked(r)

\* every component was built at import
ConcInit ==
    /\ Init
    /\ missing = {}

\* two concurrent requests on the process-wide memory
ConcSpec == ConcInit /\ [][ConcNext]_vars

ItemNoLink == [link |-> <<>>, title |-> TitleB]

\* the item lists a search call may return
RECURSIVE ItemLists(_)
ItemLists(n) ==
    IF n = 0 THEN {<<>>}
    ELSE ItemLists(n - 1) \cup
         {Append(l, i) : l \in {x \in ItemLists(n - 1) : Len(x) = n - 1},
                         i \in {ItemA, ItemB}}

\* the responses serp.search may return
Responses ==
    {NoResponse, WeatherResponse,
     [NoResponse EXCEPT !.box = "finance", !.price = Price],
     [NoResponse EXCEPT !.box = "simple"],
     [NoResponse EXCEPT !.kg = TRUE],
     [NoResponse EXCEPT !.organic = <<ItemNoLink>>]}
       \cup {[NoResponse EXCEPT !.organic = l] : l \in ItemLists(MaxItems) \ {<<>>}}

HandleOutcomes == {Outcome("raise", Boom)} \cup Values({<<>>, PageB})

HtmlOutcomes == {Outcome("raise", Boom)} \cup Values({<<>>, PageA})

MainOutcomes ==
    {Outcome("raise", Boom), Outcome("nonstr", <<>>)} \cup Values({PageA, PageTagsOnly})

Called == \E tool \in ToolNames : AdapterCall(tool)
Searched ==
    \/ SearchReturn(Outcome("raise", Boom))
    \/ /\ ad.tool = TOOL_SERPAPI
       /\ \E resp \in Responses : SearchReturn(Outcome("value", resp))
    \/ /\ ad.tool # TOOL_SERPAPI
       /\ \E items \in ItemLists(MaxItems) : SearchReturn(Outcome("value", items))
Handled == \E o \in HandleOutcomes : HandleReturn(o)
Fetched == \E i \in 1..MaxItems : \E o \in HtmlOutcomes : ExtractTextReturn(i, o)
Extracted == \E i \in 1..MaxItems : \E o \in MainOutcomes : ExtractMainReturn(i, o)
Preprocessed == \E i \in 1..MaxItems : PreprocessReturn(i)

AdapterNext ==
    \/ Called
    \/ Searched
    \/ Handled
    \/ Fetched
    \/ Extracted
    \/ Preprocessed
    \/ GatherReturn

\* the objects an adapter looks at
AdapterInit ==
    /\ Init
    /\ missing \subseteq {"serp", "naver", "ces", "parse_agent_observation", "agent"}

\* one call of a retrieval adapter
AdapterSpec == AdapterInit /\ [][AdapterNext]_vars

\* the texts parse_agent_observation is called with
ParserHeads == {<<>>, BODY_HEADER, ParseHeadTrace, ParseHeadBody}
ParserBodies ==
    {<<>>, AnswerBlank, OutPlain, ParseBodyMarkdown, ParseBodyPlain, ParseBodyBracket,
     ParseBodySpaced, ParseBodyBareFirst}
ParserTails ==
    {<<>>, ParseTailSources, ParseTailEnglish, ParseTailFinal, ParseTailParticle,
     ParseTailLabelFinal}

\* what may follow a URL with no separator: a closing paren, one of
\* [.,;'"] or one of the particles eseo, wa, gwa, ro, ui, i, ga, eun, neun
JunkUnits ==
    {<<")">>, <<".">>, <<",">>, <<";">>, <<"'">>, <<"\"">>,
     <<"U+C5D0", "U+C11C">>, <<"U+C640">>, <<"U+ACFC">>, <<"U+B85C">>, <<"U+C758">>,
     <<"U+C774">>, <<"U+AC00">>, <<"U+C740">>, <<"U+B294">>}

\* the sequences of at most MaxJunk of them
MaxJunk == 2
RECURSIVE JunkSeqs(_)
JunkSeqs(n) ==
    IF n = 0 THEN {<<>>}
    ELSE JunkSeqs(n - 1) \cup {j \o u : j \in JunkSeqs(n - 1), u \in JunkUnits}
JunkTails == JunkSeqs(MaxJunk)

\* the URLs they follow; the last one ends in a particle character
JunkUrls == {LinkA, LinkB, LinkParticle}

\* an observation that is one URL and what follows it
JunkInputs == {[isStr |-> TRUE, val |-> u \o j] : u \in JunkUrls, j \in JunkTails}

ParserInputs ==
    {[isStr |-> FALSE, val |-> <<>>]} \cup
    {[isStr |-> TRUE, val |-> h \o b \o t] :
        h \in ParserHeads, b \in ParserBodies, t \in ParserTails} \cup
    JunkInputs

Parsed == \E obs \in ParserInputs : Parse(obs)

ParserNext ==
    \/ Parsed
    \/ Reparse

\* the helpers were imported
ParserInit ==
    /\ Init
    /\ missing = {}

\* one call of parse_agent_observation
ParserSpec == ParserInit /\ [][ParserNext]_vars

-----------------------------------------------------------------------------
(* The properties                                                          *)

\* the request went down the search path
OnSearchPath(req) == req.calls # <<>> /\ req.calls[Len(req.calls)] # "no_search_chain"
                        /\ Len(req.calls) >= 4

\* the steps of a trace whose action names a retrieval tool
ToolSteps(steps) == {i \in 1..Len(steps) : steps[i].tool \in ToolNames}

\* C1: whatever each stage does (returns, raises, returns a dict without the
\* key or with a value that is no str), no exception leaves run_pipeline, and
\* every request that was received ends with a returned string.
C1_AlwaysReturns ==
    /\ [](\A r \in Session : rq[r].pc # "raised")
    /\ \A r \in Session : (rq[r].pc # "idle") ~> (rq[r].pc = "done")

\* a request returned although the reasoning loop and the fact check raised
C1_Witness ==
    /\ rq["r1"].pc = "done"
    /\ rq["r1"].agent_failed
    /\ rq["r1"].lastOut.kind = "raise"
    /\ rq["r1"].result # <<>>

\* C2: for a non-empty query the returned string is non-empty on every path,
\* also when the direct answer is empty or only white space.
C2_NonEmptyAnswer ==
    \A r \in Session :
        (rq[r].pc = "done" /\ rq[r].query # <<>>) => rq[r].result # <<>>

\* C3: the no-search path is taken exactly when the decision call returned a
\* str that, trimmed and upper-cased, is NO_SEARCH; a raise, a missing key or
\* any other value leads to the search path.
C3_NoSearchIff ==
    \A r \in Session :
        rq[r].pc \in {"nosearch", "refine"} =>
            ((rq[r].pc = "nosearch") <=>
                (rq[r].lastOut.kind = "value"
                    /\ Upper(Strip(rq[r].lastOut.val)) = NO_SEARCH))

\* the decision came in lower case with white space around it
C3_Witness ==
    /\ rq["r1"].pc = "nosearch"
    /\ rq["r1"].lastOut = Outcome("value", DecideLower)

\* C4: with a required component missing, run_pipeline returns the fixed
\* initialization text, calls no chain and no agent, and adds nothing to the
\* memory.
C4_InitErrorOnly ==
    \A r \in Session :
        (missing \cap Components # {} /\ rq[r].pc # "idle") =>
            /\ rq[r].pc = "done"
            /\ rq[r].result = INIT_ERROR
            /\ rq[r].calls = <<>>
            /\ memory = <<>>

\* the parser is the missing component and the request has returned
C4_Witness ==
    /\ missing = {"parse_agent_observation"}
    /\ rq["r1"].pc = "done"
    /\ rq["r1"].result = INIT_ERROR

\* C5: after the selection stage engine_name is one of serpapi, naver, ces:
\* the raw output without its characters outside a-z and A-Z, lower-cased,
\* when that is in the set, and ces when it is not or when the call raised.
C5_EngineChoice ==
    \A r \in Session :
        /\ rq[r].pc \in {"agent", "summary", "factcheck"} => rq[r].engine_name \in EngineNames
        /\ (rq[r].pc = "agent" /\ rq[r].intermediate_steps = <<>>) =>
              LET o == rq[r].lastOut
                  name == IF o.kind = "value"
                          THEN Lower(RemoveNonLetters(o.val))
                          ELSE <<>>
              IN  rq[r].engine_name =
                      IF name \in EngineNames THEN name ELSE ENGINE_CES

\* the selector wrote the name quoted, in mixed case, with a line break
C5_Witness ==
    /\ rq["r1"].pc = "agent"
    /\ rq["r1"].intermediate_steps = <<>>
    /\ rq["r1"].lastOut = Outcome("value", ChooseSerp)
    /\ rq["r1"].engine_name = ENGINE_SERPAPI

\* the links of the items a search may return
KnownLinks == {ItemA.link, ItemB.link}

\* C6: no exception leaves a retrieval adapter; whatever the engine does
\* (missing engine, raising search, raising or empty extraction) the call
\* returns a pair of a text and a list of links.
C6_AdapterReturnsPair ==
    /\ ad.pc # "raised"
    /\ ad.pc = "done" =>
          /\ DOMAIN ad.ret = {"text", "links"}
          /\ ad.ret.text # <<>>
          /\ \A i \in 1..Len(ad.ret.links) : ad.ret.links[i] \in KnownLinks

\* the adapter returned after an extraction raised in one of its tasks
C6_Witness ==
    /\ ad.pc = "done"
    /\ \E i \in 1..Len(ad.tasks) : ad.tasks[i].html.kind = "raise"
    /\ \E i \in 1..Len(ad.tasks) : ad.tasks[i].main.kind = "raise"

\* the extraction of a task succeeded: the page came, the main text came and
\* its processed text is not empty
Succeeded(task) ==
    /\ task.item.link # <<>>
    /\ task.html.kind = "value" /\ task.html.val # <<>>
    /\ task.main.kind = "value" /\ preprocess_html(task.main.val) # <<>>

\* the texts and the links of the tasks that succeeded, in item order
SucceededTexts(tasks) ==
    LET kept == SelectSeq(tasks, Succeeded)
    IN  [i \in 1..Len(kept) |->
            DOC_OPEN \o kept[i].item.title \o DOC_CLOSE \o preprocess_html(kept[i].main.val)]
SucceededLinks(tasks) ==
    LET kept == SelectSeq(tasks, Succeeded)
    IN  [i \in 1..Len(kept) |-> kept[i].item.link]

\* C7: the item tasks of one retrieval call run interleaved and are joined;
\* whichever tasks fail and in whatever order the tasks end, the adapter
\* returns the texts and links of exactly the tasks that succeeded, in the
\* order of the items.
C7_SuccessesInItemOrder ==
    (ad.pc = "done" /\ ad.tasks # <<>>) =>
        /\ ad.valid_texts = SucceededTexts(ad.tasks)
        /\ ad.valid_links = SucceededLinks(ad.tasks)
        /\ ad.ret = Pair(format_search_results(SucceededTexts(ad.tasks),
                                               SucceededLinks(ad.tasks)),
                         SucceededLinks(ad.tasks))

\* the second task ended first, both succeeded, and the results are in item order
C7_Witness ==
    /\ ad.pc = "done"
    /\ ad.order = <<2, 1>>
    /\ ad.items = <<ItemA, ItemB>>
    /\ ad.valid_links = <<ItemA.link, ItemB.link>>

\* C8: no exception leaves parse_agent_observation; for every input, the
\* empty string, malformed text and a value that is no str included, it
\* returns a content that is not empty and a list of links.
C8_ParserTotal ==
    /\ ps.pc # "raised"
    /\ ps.pc = "done" =>
          /\ ps.content # <<>>
          /\ \A i \in 1..Len(ps.links) : ps.links[i] # <<>>

\* the empty string was parsed
C8_Witness ==
    /\ ps.pc = "done"
    /\ ps.observation = [isStr |-> TRUE, val |-> <<>>]
    /\ ps.content = NO_VALID_CONTENT

\* C9: once the reasoning loop has returned, the evidence for the fact check
\* and the source links are the observation text and links of the newest
\* step of the trace whose action names a retrieval tool; an older step is
\* not used when a newer one exists.
C9_NewestRetrievalStep ==
    \A r \in Session :
        (rq[r].pc \in {"summary", "factcheck", "done"} /\ OnSearchPath(rq[r])
            /\ ~rq[r].agent_failed) =>
            \A i \in ToolSteps(rq[r].intermediate_steps) :
                (\A j \in ToolSteps(rq[r].intermediate_steps) : j <= i) =>
                    /\ rq[r].agent_observation_for_factcheck =
                           rq[r].intermediate_steps[i].obs.text
                    /\ rq[r].original_source_links =
                           rq[r].intermediate_steps[i].obs.links
                    /\ rq[r].pc \in {"factcheck", "done"} =>
                           rq[r].agent_observation_body =
                               Strip(rq[r].intermediate_steps[i].obs.text)

\* two retrieval steps with different observations, the newer one is used
C9_Witness ==
    /\ rq["r1"].pc = "done"
    /\ ~rq["r1"].agent_failed
    /\ Len(rq["r1"].intermediate_steps) = 2
    /\ rq["r1"].intermediate_steps[1].tool = TOOL_NAVER
    /\ rq["r1"].intermediate_steps[1].obs.links # <<>>
    /\ rq["r1"].intermediate_steps[2].tool = TOOL_CES
    /\ rq["r1"].original_source_links = <<>>

\* the fact check was called on the search path without a retrieval step in
\* the trace, or after the loop raised
NoRetrieval(req) ==
    /\ req.pc \in {"factcheck", "done"}
    /\ OnSearchPath(req)
    /\ (req.agent_failed \/ ToolSteps(req.intermediate_steps) = {})

\* C10 as stated: without a retrieval step, or when the loop fails, the
\* evidence given to the fact check is the final text of the loop, never
\* empty and never the placeholder.
C10_EvidenceIsFinalText ==
    \A r \in Session :
        NoRetrieval(rq[r]) =>
            /\ rq[r].agent_observation_body = rq[r].final_answer_str
            /\ rq[r].agent_observation_body \notin {<<>>, NO_BODY, NO_BODY_CONTENT}

\* C10, amended: when the loop returns a non-empty final text and the trace
\* has no retrieval step, the evidence is that text, trimmed, and its first
\* 2000 characters go to the fact check; when the loop raises or its final
\* text is empty, the evidence is the placeholder for a missing body.
C10_EvidenceFallback ==
    \A r \in Session :
        NoRetrieval(rq[r]) =>
            /\ (~rq[r].agent_failed /\ rq[r].final_answer_str # <<>>) =>
                  /\ rq[r].agent_observation_body = rq[r].final_answer_str
                  /\ StartsWith(rq[r].combined_history,
                                EVIDENCE_HEADER \o Take(rq[r].final_answer_str, GroundingCap)
                                    \o HISTORY_HEADER)
            /\ (rq[r].agent_failed \/ rq[r].final_answer_str = <<>>) =>
                  rq[r].agent_observation_body = NO_BODY_CONTENT

\* the loop called only an unknown tool and returned a text
C10_Witness ==
    /\ rq["r1"].pc = "done"
    /\ ~rq["r1"].agent_failed
    /\ Len(rq["r1"].intermediate_steps) = 1
    /\ rq["r1"].intermediate_steps[1].tool = BadTool
    /\ rq["r1"].final_answer_str # <<>>
    /\ rq["r1"].agent_observation_body = rq["r1"].final_answer_str

\* the links of a sequence, as a set
LinkSet(links) == {links[i] : i \in 1..Len(links)}

\* C11: no link that lacks a scheme or a host is rendered in the sources
\* block of the answer of the search path, whatever links the retrieval
\* step returned.
C11_SourcesWellFormed ==
    \A r \in Session :
        (rq[r].pc = "done" /\ OnSearchPath(rq[r])) =>
            \A link \in LinkSet(rq[r].original_source_links) :
                ~IsValidUrl(link) => ~Contains(rq[r].result, LINK_BULLET \o link)

\* the positions of text at which the bullet line of link stands
BulletLines(text, link) ==
    {i \in 1..Len(text) :
        /\ MatchAt(text, i, LINK_BULLET \o link)
        /\ (i = 1 \/ text[i - 1] = "\n")
        /\ LET e == i + Len(LINK_BULLET \o link)
           IN  e = Len(text) + 1 \/ text[e] = "\n"}

\* the index at which link occurs first in links
FirstSeen(links, link) == MinOf({i \in 1..Len(links) : links[i] = link})

\* text lists every link of links on one bullet line, and the lines follow
\* the order in which the links occur first
ListsOnceInOrder(text, links) ==
    /\ \A l \in LinkSet(links) : Cardinality(BulletLines(text, l)) = 1
    /\ \A l1, l2 \in LinkSet(links) :
          FirstSeen(links, l1) < FirstSeen(links, l2) =>
              MinOf(BulletLines(text, l1)) < MinOf(BulletLines(text, l2))

\* C12: the observation that format_search_results builds and the sources
\* block of the final answer list each distinct link once, in the order of
\* first occurrence, also when the link list repeats a link.
C12_DedupFirstSeen ==
    \A r \in Session :
        /\ \A i \in 1..Len(rq[r].intermediate_steps) :
              LET obs == rq[r].intermediate_steps[i].obs
              IN  (obs.kind = "pair" /\ obs.links # <<>>) =>
                      ListsOnceInOrder(obs.text, obs.links)
        /\ (rq[r].pc = "done" /\ OnSearchPath(rq[r])) =>
              /\ StartsWith(rq[r].result, rq[r].checked_summary)
              /\ ListsOnceInOrder(Drop(rq[r].result, Len(rq[r].checked_summary)),
                                  rq[r].original_source_links)

\* the retrieval step returned the links A, C, A and the answer lists A, C
C12_Witness ==
    /\ rq["r1"].pc = "done"
    /\ rq["r1"].original_source_links = <<LinkA, LinkNoHost, LinkA>>
    /\ rq["r1"].result =
           rq["r1"].checked_summary \o SOURCES_HEADER
               \o LINK_BULLET \o LinkA \o <<"\n">> \o LINK_BULLET \o LinkNoHost

\* C13: the checked summary is the trimmed output of the fact check when
\* the call returned a str that is not blank and holds no failure marker;
\* when the call raised, returned no output or a blank one, or an output
\* with a failure marker, it is the summary.
C13_CheckedOrSummary ==
    \A r \in Session :
        (rq[r].pc = "done" /\ OnSearchPath(rq[r])) =>
            LET o == rq[r].lastOut
                out == IF o.kind = "value" THEN Strip(o.val) ELSE <<>>
                accepted == out # <<>> /\ \A m \in FactCheckMarkers : ~Contains(out, m)
            IN  rq[r].checked_summary = IF accepted THEN out ELSE rq[r].summary

\* the fact check answered that it cannot correct, and the summary is kept
C13_Witness ==
    /\ rq["r1"].pc = "done"
    /\ rq["r1"].lastOut = Outcome("value", CheckedRejected)
    /\ rq["r1"].summary = SummaryText
    /\ rq["r1"].checked_summary = SummaryText

\* the refinement call raised, or gave a result whose trimmed text is empty
RefineFailed(o) ==
    \/ o.kind \in {"raise", "nonstr"}
    \/ (o.kind \in {"value", "str"} /\ Strip(o.val) = <<>>)

\* C14: when the refinement call raises or yields an empty string, refined
\* is the query, the selection stage is called next, and refined keeps
\* that value while the selection, the reasoning loop and the
\* summarization read it.
C14_RefineFallsBack ==
    /\ [](\A r \in Session :
            (rq[r].pc = "choose" /\ RefineFailed(rq[r].lastOut)) =>
                /\ rq[r].refined = rq[r].query
                /\ rq[r].calls[Len(rq[r].calls)] = "choose_chain")
    /\ [][\A r \in Session :
            rq[r].pc \in {"choose", "agent", "summary", "factcheck"} =>
                rq'[r].refined = rq[r].refined]_vars

\* the refinement returned only white space and the selection is called
\* with the query
C14_Witness ==
    /\ rq["r1"].pc = "choose"
    /\ rq["r1"].lastOut = Outcome("value", AnswerBlank)
    /\ rq["r1"].refined = rq["r1"].query

\* the request took the no-search path and has returned
NoSearchDone(req) ==
    /\ req.pc = "done"
    /\ req.calls # <<>>
    /\ req.calls[Len(req.calls)] = "no_search_chain"

\* C15: a request of the no-search path leaves in the memory the user
\* message with the query followed by the assistant message with the
\* returned answer, also when the direct-answer call fails.
C15_NoSearchPair ==
    \A r \in Session :
        NoSearchDone(rq[r]) =>
            memory = <<HumanMessage(rq[r].query), AIMessage(rq[r].result)>>

\* C16: while the refinement, the selection and the reasoning loop of a
\* request run, the memory already ends with the user message of that
\* request.
C16_QueryStoredOnReceipt ==
    \A r \in Session :
        rq[r].pc \in {"refine", "choose", "agent"} =>
            /\ memory # <<>>
            /\ memory[Len(memory)] = HumanMessage(rq[r].query)

\* C17: when a request of the search path has returned, the last message
\* of the memory is an assistant message whose content is the returned
\* string, and that string is the checked summary, followed by the sources
\* block when the retrieval step gave links.
C17_ReturnedIsStored ==
    \A r \in Session :
        (rq[r].pc = "done" /\ OnSearchPath(rq[r])) =>
            /\ memory # <<>>
            /\ memory[Len(memory)].role = "AIMessage"
            /\ memory[Len(memory)].content = rq[r].result
            /\ IF LinkSet(rq[r].original_source_links) \ {<<>>} = {}
               THEN rq[r].result = rq[r].checked_summary
               ELSE /\ StartsWith(rq[r].result, rq[r].checked_summary \o SOURCES_HEADER)
                    /\ \A l \in LinkSet(rq[r].original_source_links) :
                          BulletLines(Drop(rq[r].result, Len(rq[r].checked_summary)), l) # {}

\* a request returned an answer with a sources block, and the memory ends
\* with that answer
C17_Witness ==
    /\ rq["r1"].pc = "done"
    /\ OnSearchPath(rq["r1"])
    /\ rq["r1"].original_source_links # <<>>
    /\ Len(rq["r1"].result) > Len(rq["r1"].checked_summary)
    /\ memory = <<HumanMessage(rq["r1"].query), AIMessage(rq["r1"].result)>>

\* only objects of the search path are missing: the agent, or a chain that
\* the no-search path does not use
SearchPathUnavailable ==
    /\ missing \cap SearchComponents # {}
    /\ missing \cap {"llm", "decide_chain", "no_search_chain"} = {}

\* C18: when the search path is unavailable, for example because the agent
\* failed to initialize, a request that has returned went through the
\* fallback: it called the direct-answer chain and returned its answer or
\* the fixed text of a failed fallback.
C18_FallbackToNoSearch ==
    \A r \in Session :
        (SearchPathUnavailable /\ rq[r].pc = "done") =>
            /\ rq[r].calls # <<>>
            /\ rq[r].calls[Len(rq[r].calls)] = "no_search_chain"
            /\ rq[r].result # INIT_ERROR

\* the response carries an answer box or a knowledge card
Structured(resp) == resp.box # "none" \/ resp.kg

\* C19: when the response of SerpAPI carries an answer box or a knowledge
\* card, run_serpapi_async starts no item task and returns no link, and
\* the text it returns is the text handle_response made of the box or
\* card, unchanged (or the error text, when handle_response raised).
C19_DirectAnswerVerbatim ==
    (ad.pc = "done" /\ ad.tool = TOOL_SERPAPI /\ Structured(ad.resp)) =>
        /\ ad.tasks = <<>>
        /\ ad.items = <<>>
        /\ ad.ret.links = <<>>
        /\ ad.ret.text \in {handle_response(ad.resp, <<>>),
                            ErrorText(TOOL_SERPAPI, Boom)}

\* the response held a finance box and the adapter returned its text
C19_Witness ==
    /\ ad.pc = "done"
    /\ ad.tool = TOOL_SERPAPI
    /\ ad.resp.box = "finance"
    /\ ad.ret = Pair(FINANCE_HEAD \o Price \o FINANCE_TAIL, <<>>)

\* C20: when the retrieval step gave an empty list of links, or no
\* retrieval step gave any, the returned answer of the search path is the
\* checked summary and nothing else.
C20_NoLinksNoSources ==
    \A r \in Session :
        (rq[r].pc = "done" /\ OnSearchPath(rq[r])
            /\ rq[r].original_source_links = <<>>) =>
            rq[r].result = rq[r].checked_summary

\* the loop called serpapi_search, which returned a structured answer with
\* no links, and the answer carries no sources block
C20_Witness ==
    /\ rq["r1"].pc = "done"
    /\ Len(rq["r1"].intermediate_steps) = 1
    /\ rq["r1"].intermediate_steps[1].tool = TOOL_SERPAPI
    /\ rq["r1"].intermediate_steps[1].obs.links = <<>>
    /\ rq["r1"].agent_observation_for_factcheck = WEATHER_TEXT
    /\ rq["r1"].result = rq["r1"].checked_summary
    /\ ~Contains(rq["r1"].result, SOURCES_HEADER)

\* C21: when the reasoning loop raises, the answer that run_pipeline
\* returns holds the error string made of the exception.
C21_AgentErrorSurfaced ==
    \A r \in Session :
        (rq[r].pc = "done" /\ OnSearchPath(rq[r]) /\ rq[r].agent_failed) =>
            Contains(rq[r].result, rq[r].final_answer_str)

\* C22: parsing a text made of the links that a call of
\* parse_agent_observation returned gives the same links in the same
\* order, and cleaning one of those links again leaves it as it is.
C22_LinkCleaningIdempotent ==
    ps.pc = "reparsed" =>
        /\ ps.reparsed = ps.links
        /\ \A i \in 1..Len(ps.links) : CleanLink(ps.links[i]) = ps.links[i]

\* the observation is the URL u and a sequence of trailing characters
IsUrlThenJunk(obs, u) == obs.isStr /\ \E j \in JunkTails : obs.val = u \o j

\* the last character of the URL is itself one the cleaning removes
EndsInJunk(u) == u # <<>> /\ (IsJunkChar(u[Len(u)]) \/ u[Len(u)] = "U+C73C")

Unresolved(o) == ~(o.kind = "value" /\ Lower(RemoveNonLetters(o.val)) \in EngineNames)

\* the selection stage has just ended for r
JustChosen(r) == rq[r].pc = "agent" /\ rq[r].intermediate_steps = <<>>

PostMarker(s) == Strip(Drop(s, MinOf(FinalAnswerMarks(s)) + Len(FINAL_ANSWER_MARK) - 1))

\* the text before the first sources label, stripped (the whole text when
\* there is no label)
PreLabel(s) == ContentPart(s)

\* the condition under which the text after the mark is preferred
PrefersPostMarker(s, links) ==
    \/ (links = <<>> /\ PostMarker(s) # <<>>)
    \/ (links # <<>> /\ Len(PostMarker(s)) < Len(PreLabel(s)))

\* C25: when the input has a Final Answer mark, the content chosen is the
\* text after the mark exactly when no link was found and that text is
\* non-empty, or links were found and that text is shorter than the text
\* before the sources label; otherwise it is the text before the sources
\* label without a leading body label. (An empty choice is then replaced
\* by the placeholder, the next rule of the parser.)
C25_FinalAnswerRule ==
    (ps.pc = "done" /\ ps.observation.isStr /\ FinalAnswerMarks(ps.observation.val) # {}) =>
        LET s == ps.observation.val
            chosen == IF PrefersPostMarker(s, ps.links)
                      THEN PostMarker(s)
                      ELSE StripBodyLabel(PreLabel(s))
        IN  ps.content = IF chosen = <<>> THEN NO_VALID_CONTENT ELSE chosen

\* links were found and the text after the mark is the shorter one
C25_Witness ==
    /\ ps.pc = "done"
    /\ ps.observation.isStr
    /\ ps.observation.val = ParseBodyMarkdown \o ParseTailLabelFinal
    /\ ps.links # <<>>
    /\ ps.content = ParseFinalText

\* links were found and the text after the mark is the longer one
C25_WitnessKept ==
    /\ ps.pc = "done"
    /\ ps.observation.isStr
    /\ ps.observation.val = OutPlain \o ParseTailLabelFinal
    /\ ps.links # <<>>
    /\ ps.content = OutPlain

\* C26: for every input with a sources label, the content returned is the
\* body before the first label (the placeholder when that body is empty)
\* and holds no sources label.
C26_ContentExcludesSources ==
    (ps.pc = "done" /\ ps.observation.isStr /\ SourceLabels(ps.observation.val) # {}) =>
        LET body == StripBodyLabel(ContentPart(ps.observation.val))
        IN  /\ ps.content = IF body = <<>> THEN NO_VALID_CONTENT ELSE body
            /\ SourceLabels(ps.content) = {}

\* the first position at which sub occurs in s, 0 when it does not
FirstAt(s, sub) ==
    LET at == {i \in 1..Len(s) : MatchAt(s, i, sub)}
    IN  IF at = {} THEN 0 ELSE MinOf(at)

\* C27: the links returned hold no duplicate and stand in the order in
\* which they first occur in the input, markdown-style or bare.
C27_LinksInTextOrder ==
    (ps.pc = "done" /\ ps.observation.isStr) =>
        /\ \A i, j \in 1..Len(ps.links) : ps.links[i] = ps.links[j] => i = j
        /\ \A i, j \in 1..Len(ps.links) :
              i < j => FirstAt(ps.observation.val, ps.links[i])
                           <= FirstAt(ps.observation.val, ps.links[j])

\* the extracted content is empty or one of the pipeline's own strings:
\* the error string made of the loop's exception, the placeholder for a
\* missing final answer, the parser's placeholder
IsOwnPlaceholder(req) ==
    \/ req.extracted_content = <<>>
    \/ (req.agent_failed /\ req.extracted_content = req.final_answer_str)
    \/ req.extracted_content = NO_FINAL_ANSWER
    \/ req.extracted_content = NO_VALID_CONTENT

\* C28: when the extracted content is empty or one of the pipeline's own
\* error and placeholder strings, the summary chain is not called and the
\* summary is the extracted content.
C28_SummarySkippedOnPlaceholder ==
    \A r \in Session :
        IsOwnPlaceholder(rq[r]) =>
            /\ rq[r].pc # "summary"
            /\ (rq[r].pc \in {"factcheck", "done"} /\ OnSearchPath(rq[r])) =>
                  rq[r].summary = rq[r].extracted_content

\* C29: on the search path every retrieval tool the reasoning loop invokes
\* is the tool mapped from the engine choice, and the step whose
\* observation becomes the evidence and the source links is a step of
\* that tool.
C29_OnlyMappedTool ==
    \A r \in Session :
        LET steps == rq[r].intermediate_steps
        IN  /\ \A i \in 1..Len(steps) :
                  steps[i].tool \in ToolNames => steps[i].tool = rq[r].selected_tool_name
            /\ (rq[r].pc \in {"summary", "factcheck", "done"} /\ ~rq[r].agent_failed
                    /\ FoundStep(steps) # 0) =>
                  steps[FoundStep(steps)].tool = rq[r].selected_tool_name

\* C30: with two calls of run_pipeline in flight, the user message and
\* the assistant message of a request that has returned are next to each
\* other in the memory.
C30_OwnMessagesAdjacent ==
    \A r \in Reqs :
        rq[r].pc = "done" =>
            \E i \in 1..(Len(memory) - 1) :
                /\ memory[i] = HumanMessage(rq[r].query)
                /\ memory[i + 1] = AIMessage(rq[r].result)

\* at most one request is between its first and its last step
Serialized == \E r \in Reqs : \A o \in Reqs \ {r} : rq[o].pc \in {"idle", "done"}

====
